---- MODULE Spec2Model ----
(***************************************************************************)
(* Model of the DWC2 (dwc-hsotg) dual-role USB controller emulation,       *)
(* hw/usb/hcd-dwc2.c.                                                      *)
(*                                                                         *)
(* Registers are modelled as sets of named bits (a bit is set iff its name *)
(* is in the set), so that C's  a & b, a | b, a & ~b  become               *)
(* a \cap b, a \cup b, a \ b.  Multi-bit fields that the code decodes with *)
(* get_field (HCCHAR.MPS, HCTSIZ.PKTCNT, ...) are record fields holding    *)
(* numbers.  Every C function that changes state is an operator from a     *)
(* state record to a state record, composed in the order of the C          *)
(* statements; an action applies one entry point (MMIO write, port         *)
(* callback, bottom half, timer) to the current state.                     *)
(***************************************************************************)
EXTENDS Integers, FiniteSets, Sequences, TLC

VARIABLES
    gintsts,      \* s->gintsts
    gintmsk,      \* s->gintmsk
    gahbcfg,      \* s->gahbcfg
    gotgctl,      \* s->gotgctl
    oldlevel,     \* static int oldlevel of dwc2_update_irq
    irq,          \* level last driven on s->irq by qemu_set_irq
    haint,        \* s->haint, the set of channels whose bit is set
    haintmsk,     \* s->haintmsk
    hprt0,        \* s->hprt0
    hcchar,       \* s->hreg1[8c + 0], per channel
    hcint,        \* s->hreg1[8c + 2]
    hcintmsk,     \* s->hreg1[8c + 3]
    hctsiz,       \* s->hreg1[8c + 4]
    hcdma,        \* s->hreg1[8c + 5]
    packet,       \* s->packet[c] (DWC2Packet)
    held,         \* packets of channel c the attached device holds (USB_RET_ASYNC given, not completed)
    working,      \* s->working
    bh_chan,      \* the channel dwc2_work_bh is servicing (in usb_handle_packet), -1 when no drain is executing
    next_chan,    \* s->next_chan
    bh_sched,     \* s->async_bh is scheduled
    timer_armed,  \* s->frame_timer is armed
    eof_armed,    \* s->eof_timer is armed
    frame_number, \* s->frame_number
    now,          \* qemu_clock_get_ns(QEMU_CLOCK_VIRTUAL)
    sof_time,     \* s->sof_time
    usb_frame_time, \* s->usb_frame_time
    usb_bit_time, \* s->usb_bit_time
    hfnum_rd,     \* the last read of HFNUM: when, in which frame, the frame remaining it returned (history)
    dev_attached, \* s->uport.dev && s->uport.dev->attached
    dev_addr,     \* address the attached device answers to (usb_find_device)
    dev_speed,    \* s->uport.dev->speed
    dev_ready,    \* the attached device has the data of its endpoints ready
    diepctl,      \* s->diepreg[8ep + 0], per endpoint (the flag bits)
    doepctl,      \* s->doepreg[8ep + 0]
    diepint,      \* s->diepreg[8ep + 2]
    doepint,      \* s->doepreg[8ep + 2]
    diepmsk,      \* s->diepmsk
    doepmsk,      \* s->doepmsk
    daint,        \* s->daint, the set of <<ep, out>> whose bit is set
    daintmsk,     \* s->daintmsk
    dcfg,         \* s->dcfg (the flag bits)
    dieptsiz,     \* s->diepreg[8ep + 4], per endpoint: PKTCNT and XFERSIZE
    doeptsiz,     \* s->doepreg[8ep + 4]
    diepdma,      \* s->diepreg[8ep + 5]
    doepdma,      \* s->doepreg[8ep + 5]
    diepmps,      \* the MPS field of s->diepreg[8ep + 0], in bytes
    doepmps,      \* the MPS field of s->doepreg[8ep + 0], in bytes
    desc_mem,     \* the DMA descriptors in guest memory, by slot
    tok,          \* what dwc2_device_process_packet did in the step that led here (history)
    dev_bh_sched, \* s->device_async_bh is scheduled
    completed, \* the packets the device bottom half completed in the step
    ep_queue, \* the packets parked on each endpoint queue of the device (ep->queue)
    dma_ok, \* the guest memory the channel buffers lie in is mapped: dma_memory_read and dma_memory_write give MEMTX_OK
    hreg0_rsvd, \* s->hreg0[i] of the reserved words i of the host bank
    grstctl, \* s->grstctl (the flag bits)
    irq_before, \* level of s->irq before the last qemu_set_irq, -1 while none was made
    udev_attached, \* USB_DEVICE(s->device)->attached
    dctl, \* s->dctl (the flag bits)
    dsts, \* s->dsts, the ENUMSPD field
    aborted,      \* an assert() of the controller failed
    ev            \* what the last step did with a packet (history, for the properties)

vars == <<gintsts, gintmsk, gahbcfg, gotgctl, oldlevel, irq, haint, haintmsk,
          hprt0, hcchar, hcint, hcintmsk, hctsiz, hcdma, packet, held, working,
          bh_chan, next_chan, bh_sched, timer_armed, eof_armed, frame_number,
          now, sof_time, usb_frame_time, usb_bit_time, hfnum_rd,
          dev_attached, dev_addr, dev_speed, dev_ready, diepctl, doepctl,
          diepint, doepint, diepmsk, doepmsk, daint, daintmsk, dev_bh_sched,
          dcfg, dieptsiz, doeptsiz, diepdma, doepdma, diepmps, doepmps,
          dsts,
          dctl,
          udev_attached,
          irq_before,
          grstctl,
          hreg0_rsvd,
          dma_ok,
          ep_queue,
          completed,
          desc_mem, tok, aborted, ev>>

(***************************************************************************)
(* Bounds of the model.                                                    *)
(***************************************************************************)
\* number of host channels modelled (DWC2_NB_CHAN of them behave alike)
NbChan == 2
\* packets of one channel the device may hold before the model stops issuing
MaxHeld == 2
\* HCDMA is kept modulo this size (the code: modulo 2^32)
DmaSize == 4

\* the frame clock stops at this frame number
MaxFrame == 2

Chans == 0 .. (NbChan - 1)

\* number of device endpoints modelled (DWC2_NB_EP of them behave alike,
\* endpoint 0 apart)
NbEp == 2
\* number of DMA descriptors the guest memory holds; the DMA address of an
\* endpoint wraps after them (the code: at 2^32)
DescSlots == 2

Eps == 0 .. (NbEp - 1)

\* usb_ep_get(dev, pid, ep): the control endpoint for ep 0, else the IN or
\* the OUT endpoint of that number
EpQueue(ep, pid) ==
    IF ep = 0 THEN <<0, "CTL">> ELSE <<ep, IF pid = "IN" THEN "IN" ELSE "OUT">>

\* the endpoints of the device, each with its queue of packets
EpQueues == {<<0, "CTL">>} \cup {<<e, d>> : e \in Eps \ {0}, d \in {"OUT", "IN"}}

(***************************************************************************)
(* Program constants.                                                      *)
(***************************************************************************)
DWC2_MAX_XFER_SIZE == 65536
\* s->frame_number is kept & 0xffff
FrameWrap == 65536
\* bit rates of full and high speed, bit times of a frame
USB_HZ_FS == 12000000
USB_HZ_HS == 96000000
USB_FRMINTVL == 12000
NANOSECONDS_PER_SECOND == 1000000000
\* s->fi, only ever set to USB_FRMINTVL - 1
fi == USB_FRMINTVL - 1
\* transfers up to this size are sent packet by packet (dwc2_enable_chan)
SmallXferLimit == 1536

USB_ENDPOINT_XFER_CONTROL == 0
USB_ENDPOINT_XFER_ISOC == 1
USB_ENDPOINT_XFER_BULK == 2
USB_ENDPOINT_XFER_INT == 3

\* GINTSTS bits the guest cannot clear (dwc2_glbreg_write, case GINTSTS)
GINTSTS_READONLY ==
    {"PTXFEMP", "HCHINT", "PRTINT", "OEPINT", "IEPINT", "GOUTNAKEFF",
     "GINNAKEFF", "NPTXFEMP", "RXFLVL", "OTGINT", "CURMODE_HOST"}

\* the bits of HCINT below HCINTMSK_RESERVED14_31 that the model uses
HCINT_BITS == {"XFERCOMPL", "CHHLTD", "STALL", "NAK", "XACTERR", "BBLERR", "ACK"}

HPRT0_SPD_MASK == {"SPD_B0", "SPD_B1"}
HPRT0_LNSTS_MASK == {"LNSTS_B0", "LNSTS_B1"}
HPRT0_W1C == {"OVRCURRCHG", "ENACHG", "ENA", "CONNDET"}

\* the bits dwc2_hreg0_write calls read-only
HPRT0_READONLY ==
    HPRT0_SPD_MASK \cup HPRT0_LNSTS_MASK \cup {"OVRCURRACT", "CONNSTS"}

\* the bits dwc2_glbreg_write calls read-only in GOTGCTL
GOTGCTL_READONLY ==
    {"MULT_VALID_BC", "BSESVLD", "ASESVLD", "DBNC_SHORT", "CONID_B",
     "HSTNEGSCS", "SESREQSCS"}

\* the statuses of a USBPacket, in the order of pstatus[] / pintr[]
USB_RET == <<"SUCCESS", "NODEV", "NAK", "STALL", "BABBLE", "IOERROR", "ASYNC",
             "ADD_TO_QUEUE", "REMOVE_FROM_QUEUE">>

\* pintr[]: the HCINT cause of each status
pintr == <<"XFERCOMPL", "XACTERR", "NAK", "STALL", "BBLERR", "XACTERR",
           "XACTERR", "XACTERR", "XACTERR">>

\* stsidx = -p->packet.status
StsIdx(status) == CHOOSE i \in 1 .. Len(USB_RET) : USB_RET[i] = status

\* no token was processed in the step
NoTok == [pid |-> "none", ep |-> 0, pktsize |-> 0, status |-> "none",
          desc |-> FALSE, start |-> 0, taken |-> <<>>, actual |-> 0,
          diverged |-> FALSE, fault |-> "none",
          req |-> [bmRequestType |-> -1, bRequest |-> -1]]

\* the last packet event: which path handled a packet (op), on which channel,
\* the status the device gave, how many bytes came with it (actual_length)
\* and whether that is more than was asked for; for a step that raises or
\* lowers one global cause, the cause (intr) and whether it was set before;
\* whether a DMA access of dwc2_handle_packet failed (fault)
NoEv == [op |-> "none", chan |-> 0, status |-> "none", over |-> FALSE,
         actual |-> 0, intr |-> {}, was |-> FALSE, fault |-> FALSE]

(***************************************************************************)
(* The state as one record, and back.                                      *)
(***************************************************************************)
S == [gintsts |-> gintsts, gintmsk |-> gintmsk, gahbcfg |-> gahbcfg,
      gotgctl |-> gotgctl, oldlevel |-> oldlevel, irq |-> irq,
      haint |-> haint, haintmsk |-> haintmsk, hprt0 |-> hprt0,
      hcchar |-> hcchar, hcint |-> hcint, hcintmsk |-> hcintmsk,
      hctsiz |-> hctsiz, hcdma |-> hcdma, packet |-> packet, held |-> held,
      working |-> working, bh_chan |-> bh_chan, next_chan |-> next_chan, bh_sched |-> bh_sched,
      timer_armed |-> timer_armed, eof_armed |-> eof_armed,
      frame_number |-> frame_number, now |-> now, sof_time |-> sof_time,
      usb_frame_time |-> usb_frame_time, usb_bit_time |-> usb_bit_time,
      hfnum_rd |-> hfnum_rd, dev_attached |-> dev_attached,
      dev_addr |-> dev_addr, dev_speed |-> dev_speed, dev_ready |-> dev_ready,
      diepctl |-> diepctl, doepctl |-> doepctl, diepint |-> diepint,
      doepint |-> doepint, diepmsk |-> diepmsk, doepmsk |-> doepmsk,
      daint |-> daint, daintmsk |-> daintmsk, dev_bh_sched |-> dev_bh_sched,
      dcfg |-> dcfg, dieptsiz |-> dieptsiz, doeptsiz |-> doeptsiz,
      diepdma |-> diepdma, doepdma |-> doepdma, diepmps |-> diepmps,
      doepmps |-> doepmps, desc_mem |-> desc_mem, tok |-> NoTok,
      dsts |-> dsts,
      dctl |-> dctl,
      udev_attached |-> udev_attached,
      irq_before |-> irq_before,
      grstctl |-> grstctl,
      hreg0_rsvd |-> hreg0_rsvd,
      dma_ok |-> dma_ok,
      ep_queue |-> ep_queue,
      completed |-> {},
      aborted |-> aborted,
      ev |-> NoEv]

Commit(s) ==
    /\ gintsts' = s.gintsts
    /\ gintmsk' = s.gintmsk
    /\ gahbcfg' = s.gahbcfg
    /\ gotgctl' = s.gotgctl
    /\ oldlevel' = s.oldlevel
    /\ irq' = s.irq
    /\ haint' = s.haint
    /\ haintmsk' = s.haintmsk
    /\ hprt0' = s.hprt0
    /\ hcchar' = s.hcchar
    /\ hcint' = s.hcint
    /\ hcintmsk' = s.hcintmsk
    /\ hctsiz' = s.hctsiz
    /\ hcdma' = s.hcdma
    /\ packet' = s.packet
    /\ held' = s.held
    /\ working' = s.working
    /\ bh_chan' = s.bh_chan
    /\ next_chan' = s.next_chan
    /\ bh_sched' = s.bh_sched
    /\ timer_armed' = s.timer_armed
    /\ eof_armed' = s.eof_armed
    /\ frame_number' = s.frame_number
    /\ now' = s.now
    /\ sof_time' = s.sof_time
    /\ usb_frame_time' = s.usb_frame_time
    /\ usb_bit_time' = s.usb_bit_time
    /\ hfnum_rd' = s.hfnum_rd
    /\ dev_attached' = s.dev_attached
    /\ dev_addr' = s.dev_addr
    /\ dev_speed' = s.dev_speed
    /\ dev_ready' = s.dev_ready
    /\ diepctl' = s.diepctl
    /\ doepctl' = s.doepctl
    /\ diepint' = s.diepint
    /\ doepint' = s.doepint
    /\ diepmsk' = s.diepmsk
    /\ doepmsk' = s.doepmsk
    /\ daint' = s.daint
    /\ daintmsk' = s.daintmsk
    /\ dcfg' = s.dcfg
    /\ dieptsiz' = s.dieptsiz
    /\ doeptsiz' = s.doeptsiz
    /\ diepdma' = s.diepdma
    /\ doepdma' = s.doepdma
    /\ diepmps' = s.diepmps
    /\ doepmps' = s.doepmps
    /\ desc_mem' = s.desc_mem
    /\ tok' = s.tok
    /\ dev_bh_sched' = s.dev_bh_sched
    /\ dsts' = s.dsts
    /\ dctl' = s.dctl
    /\ udev_attached' = s.udev_attached
    /\ irq_before' = s.irq_before
    /\ grstctl' = s.grstctl
    /\ hreg0_rsvd' = s.hreg0_rsvd
    /\ dma_ok' = s.dma_ok
    /\ ep_queue' = s.ep_queue
    /\ completed' = s.completed
    /\ aborted' = s.aborted
    /\ ev' = s.ev

\* F(x), with x computed once
Eval(x, F(_)) == CHOOSE r \in {F(v) : v \in {x}} : TRUE

(***************************************************************************)
(* Interrupt aggregation.                                                  *)
(***************************************************************************)
\* the level dwc2_update_irq computes
IrqLevel(s) ==
    IF (s.gintsts \cap s.gintmsk) # {} /\ "GLBL_INTR_EN" \in s.gahbcfg
    THEN 1 ELSE 0

dwc2_update_irq(st) ==
    Eval(st, LAMBDA s :
    LET level == IrqLevel(s)
    IN  IF level # s.oldlevel
        THEN [s EXCEPT !.oldlevel = level, !.irq_before = s.irq, !.irq = level]
        ELSE s)

dwc2_raise_global_irq_always(st, intr) ==
    Eval(st, LAMBDA s :
    dwc2_update_irq([s EXCEPT !.gintsts = @ \cup intr]))

dwc2_raise_global_irq(st, intr) ==
    Eval(st, LAMBDA s :
    IF s.gintsts \cap intr = {}
    THEN dwc2_update_irq([s EXCEPT !.gintsts = @ \cup intr])
    ELSE s)

dwc2_lower_global_irq(st, intr) ==
    Eval(st, LAMBDA s :
    IF s.gintsts \cap intr # {}
    THEN dwc2_update_irq([s EXCEPT !.gintsts = @ \ intr])
    ELSE s)

dwc2_raise_host_irq(st, host_intr) ==
    Eval(st, LAMBDA s :
    IF s.haint \cap host_intr = {}
    THEN LET s1 == [s EXCEPT !.haint = @ \cup host_intr]
         IN  IF s1.haint \cap s1.haintmsk # {}
             THEN dwc2_raise_global_irq(s1, {"HCHINT"})
             ELSE s1
    ELSE s)

dwc2_lower_host_irq(st, host_intr) ==
    Eval(st, LAMBDA s :
    IF s.haint \cap host_intr # {}
    THEN LET s1 == [s EXCEPT !.haint = @ \ host_intr]
         IN  IF s1.haint \cap s1.haintmsk = {}
             THEN dwc2_lower_global_irq(s1, {"HCHINT"})
             ELSE s1
    ELSE s)

\* the IN bits (daint & 0xffff) or the OUT bits (daint >> 16) of DAINT
DaintHalf(d, out) == {b \in d : b[2] = out}

dwc2_raise_device_irq(st, ep, out) ==
    Eval(st, LAMBDA s :
    IF <<ep, out>> \in s.daint
    THEN s
    ELSE LET s1 == [s EXCEPT !.daint = @ \cup {<<ep, out>>}]
             s2 == IF DaintHalf(s1.daint, FALSE) # {}
                   THEN dwc2_raise_global_irq(s1, {"IEPINT"})
                   ELSE s1
             s3 == IF DaintHalf(s2.daint, TRUE) # {}
                   THEN dwc2_raise_global_irq(s2, {"OEPINT"})
                   ELSE s2
         IN  IF s1.daint \cap s1.daintmsk # {} THEN s3 ELSE s1)

dwc2_lower_device_irq(st, ep, out) ==
    Eval(st, LAMBDA s :
    IF <<ep, out>> \notin s.daint
    THEN s
    ELSE LET s1 == [s EXCEPT !.daint = @ \ {<<ep, out>>}]
             s2 == IF DaintHalf(s1.daint, FALSE) = {}
                   THEN dwc2_lower_global_irq(s1, {"IEPINT"})
                   ELSE s1
             s3 == IF DaintHalf(s2.daint, TRUE) = {}
                   THEN dwc2_lower_global_irq(s2, {"OEPINT"})
                   ELSE s2
         IN  IF s1.daint \cap s1.daintmsk = {} THEN s3 ELSE s1)

\* only the IN half
dwc2_update_ep_irq_in(st, ep) ==
    Eval(st, LAMBDA s :
    IF s.diepint[ep] \cap s.diepmsk # {}
    THEN dwc2_raise_device_irq(s, ep, FALSE)
    ELSE dwc2_lower_device_irq(s, ep, FALSE))

dwc2_update_ep_irq(st, ep) ==
    Eval(st, LAMBDA s :
    LET s1 == IF s.diepint[ep] \cap s.diepmsk # {}
              THEN dwc2_raise_device_irq(s, ep, FALSE)
              ELSE dwc2_lower_device_irq(s, ep, FALSE)
    IN  IF s1.doepint[ep] \cap s1.doepmsk # {}
        THEN dwc2_raise_device_irq(s1, ep, TRUE)
        ELSE dwc2_lower_device_irq(s1, ep, TRUE))

dwc2_update_hc_irq(st, c) ==
    Eval(st, LAMBDA s :
    IF s.hcint[c] \cap s.hcintmsk[c] # {}
    THEN dwc2_raise_host_irq(s, {c})
    ELSE dwc2_lower_host_irq(s, {c}))

(***************************************************************************)
(* Frame clock.                                                            *)
(***************************************************************************)
\* dwc2_eof_timer: timer_mod(s->eof_timer, s->sof_time + s->usb_frame_time)
dwc2_eof_timer(s) == [s EXCEPT !.eof_armed = TRUE]

\* when the armed eof timer expires
EofDeadline(s) == s.sof_time + s.usb_frame_time

\* dwc2_sof
dwc2_sof(s) ==
    dwc2_raise_global_irq(dwc2_eof_timer([s EXCEPT !.sof_time = @ + s.usb_frame_time]),
                          {"SOF"})

\* frcnt = (uint16_t)((now - s->sof_time) / s->fi)  (line 232)
Frcnt(s) == ((s.now - s.sof_time) \div fi) % FrameWrap

\* dwc2_frame_boundary
dwc2_frame_boundary(s) ==
    dwc2_sof([s EXCEPT !.frame_number = (@ + Frcnt(s)) % FrameWrap,
                       !.ev.op = "frame"])

\* dwc2_bus_start
dwc2_bus_start(s) == dwc2_eof_timer([s EXCEPT !.sof_time = s.now])

\* tks = tks / s->usb_bit_time, a tick for every time unit
FrameTicksUnscaled(tks, bit_time) == tks

\* tks = tks / s->usb_bit_time  (line 629)
FrameTicks(tks, bit_time) == tks \div bit_time

\* dwc2_get_frame_remaining
dwc2_get_frame_remaining(s) ==
    LET t0 == s.now - s.sof_time
        tks == IF t0 < 0 THEN 0 ELSE t0
    IN  IF tks >= s.usb_frame_time THEN 0
        ELSE IF tks < s.usb_bit_time THEN fi
        ELSE IF FrameTicks(tks, s.usb_bit_time) >= fi THEN 0
        ELSE fi - FrameTicks(tks, s.usb_bit_time)

\* no read of HFNUM yet
NoRead == [at |-> -1, sof |-> -1, frrem |-> 0]

\* a read of HFNUM that starts a new frame interval at the time of the read
dwc2_hreg0_read_HFNUM_latching(s) ==
    [s EXCEPT !.hfnum_rd = [at |-> s.now, sof |-> s.sof_time,
                            frrem |-> dwc2_get_frame_remaining(s)],
              !.sof_time = s.now,
              !.ev.op = "hfnum",
              !.ev.actual = s.frame_number]

\* dwc2_hreg0_read, case HFNUM: the frame remaining field of the value
\* (hfnum_rd.frrem) and its frame number field (left in the event)
dwc2_hreg0_read_HFNUM(s) ==
    [s EXCEPT !.hfnum_rd = [at |-> s.now, sof |-> s.sof_time,
                            frrem |-> dwc2_get_frame_remaining(s)],
              !.ev.op = "hfnum",
              !.ev.actual = s.frame_number]

\* dwc2_bus_stop: timer_del(s->eof_timer)
dwc2_bus_stop(s) == [s EXCEPT !.eof_armed = FALSE]

(***************************************************************************)
(* The attached device, as far as the controller sees it.                  *)
(***************************************************************************)
\* dwc2_find_device: TRUE iff a device is returned (not NULL)
dwc2_find_device(s, addr) ==
    IF "ENA" \notin s.hprt0
    THEN FALSE
    ELSE s.dev_attached /\ addr = s.dev_addr

\* p->packet.actual_length as the device sets it, for a packet of tlen bytes:
\* all of it, one byte less, nothing, or one byte more than asked for
DevActual(resp, tlen) ==
    IF resp.status # "SUCCESS" THEN 0
    ELSE IF resp.kind = "full" THEN tlen
    ELSE IF resp.kind = "short" THEN (IF tlen > 0 THEN tlen - 1 ELSE 0)
    ELSE IF resp.kind = "over" THEN tlen + 1
    ELSE 0

(***************************************************************************)
(* Host channel engine.                                                    *)
(***************************************************************************)
\* the USB token of a channel (dwc2_handle_packet, lines 331-335)
Token(eptype, pidfield, epdir) ==
    IF eptype = USB_ENDPOINT_XFER_CONTROL /\ pidfield = "SETUP"
    THEN "SETUP"
    ELSE IF epdir = 1 THEN "IN" ELSE "OUT"

\* tlen: the length of the packet to send, or of the packet that completed
TLen(s, c, send) ==
    LET len == s.hctsiz[c].xfersize
        mps == s.hcchar[c].mps
    IN  IF send
        THEN IF s.packet[c].small /\ len > mps THEN mps ELSE len
        ELSE s.packet[c].len

\* whether a DMA access of dwc2_handle_packet fails: the dma_memory_read of
\* the tlen bytes to send (lines 344-352) or the dma_memory_write of the
\* actual bytes received (lines 401-408).  The code logs the failure and
\* goes on, so nothing else depends on it.
DmaFaults(s, c, send, status, actual, tlen) ==
    LET pid == Token(s.hcchar[c].eptype, s.hctsiz[c].pid, s.hcchar[c].epdir)
    IN  /\ ~s.dma_ok
        /\ \/ send /\ pid # "IN" /\ tlen > 0
           \/ status = "SUCCESS" /\ actual <= tlen /\ pid = "IN" /\ actual > 0

\* dwc2_handle_packet without the check of the transfer size
PacketAcceptedAnySize(s, c) ==
    s.hcchar[c].mps # 0

\* whether dwc2_handle_packet gets past its two early returns
PacketAccepted(s, c) ==
    /\ ~(s.hctsiz[c].xfersize > DWC2_MAX_XFER_SIZE)
    /\ s.hcchar[c].mps # 0

\* a retry on NAK for every transfer type
NakRetriedAlways(status, eptype) == status = "NAK"

\* for ctrl/bulk, automatically retry on NAK (lines 431-433)
NakRetried(status, eptype) ==
    /\ status = "NAK"
    /\ eptype \in {USB_ENDPOINT_XFER_CONTROL, USB_ENDPOINT_XFER_BULK}

\* a retry path that counted the NAKed packet as sent
NakTsizCounted(tsz) == [tsz EXCEPT !.pktcnt = IF @ > 0 THEN @ - 1 ELSE 0]

\* HCTSIZ after a NAK that is retried: the else branch never writes hreg1[index + 4]
NakTsiz(tsz) == tsz

\* a packet count that leaves out the last, partial packet
TpcntWhole(actual, mps) == actual \div mps

\* tpcnt = actual / mps; if (actual % mps) tpcnt++;
Tpcnt(actual, mps) == (actual \div mps) + (IF actual % mps # 0 THEN 1 ELSE 0)

\* a transfer that an empty packet does not end
SuccessDoneCounts(short_in, pcnt, len, actual) ==
    short_in \/ pcnt = 0 \/ len = 0

\* done after USB_RET_SUCCESS: a short IN packet (lines 413-415), or
\* if (!pcnt || len == 0 || actual == 0)
SuccessDone(short_in, pcnt, len, actual) ==
    short_in \/ pcnt = 0 \/ len = 0 \/ actual = 0

\* the completion path of dwc2_handle_packet, from the label babble on, for a
\* status other than USB_RET_ASYNC.  st0 is the status the device gave and
\* stsidx its index, computed once before the label.
PacketDone(st, devadr, c, st0, actual, tlen) ==
    Eval(st, LAMBDA s :
    LET chr == s.hcchar[c]
        tsz == s.hctsiz[c]
        eptype == chr.eptype
        mps == chr.mps
        pcnt == tsz.pktcnt
        len == tsz.xfersize
        pid == Token(eptype, tsz.pid, chr.epdir)
        stsidx == StsIdx(st0)
        \* if (actual > tlen) { p->packet.status = USB_RET_BABBLE; goto babble; }
        status == IF st0 = "SUCCESS" /\ actual > tlen THEN "BABBLE" ELSE st0
        success == status = "SUCCESS"
        tpcnt == Tpcnt(actual, mps)
        short_in == success /\ actual % mps # 0 /\ pid = "IN"
        npcnt == pcnt - (IF tpcnt < pcnt THEN tpcnt ELSE pcnt)
        nlen == len - (IF actual < len THEN actual ELSE len)
        retried == ~success /\ NakRetried(status, eptype)
        s1 == IF success
              THEN [s EXCEPT !.hctsiz[c] = [@ EXCEPT !.pktcnt = npcnt,
                                                      !.xfersize = nlen],
                             !.hcdma[c] = (@ + actual) % DmaSize]
              ELSE IF retried
              THEN [s EXCEPT !.hcint[c] = @ \cup ({pintr[stsidx]} \cap HCINT_BITS),
                             !.hctsiz[c] = NakTsiz(@)]
              ELSE s
        intr0 == IF success THEN {}
                 ELSE IF retried THEN {pintr[stsidx]}
                 ELSE {pintr[stsidx], "CHHLTD"}
        done == IF success
                THEN SuccessDone(short_in, npcnt, nlen, actual)
                ELSE ~retried
        intr1 == IF "CHHLTD" \notin intr0
                 THEN intr0 \cup {"CHHLTD", "XFERCOMPL"}
                 ELSE intr0
    IN  IF done
        THEN dwc2_update_hc_irq(
                 [s1 EXCEPT !.hcchar[c].chena = FALSE,
                            !.hcint[c] = @ \cup (intr1 \cap HCINT_BITS),
                            !.packet[c].needs_service = FALSE], c)
        ELSE LET s2 == [s1 EXCEPT !.packet[c].devadr = devadr,
                                  !.packet[c].len = s1.hctsiz[c].xfersize,
                                  !.packet[c].needs_service = TRUE]
             IN  IF retried THEN dwc2_update_hc_irq(s2, c) ELSE s2)

\* a parked packet that still asks for service
AsyncParkedNeedsService(p, devadr, tlen) ==
    [p EXCEPT !.devadr = devadr, !.len = tlen, !.async = "INFLIGHT"]

\* the packet of a channel whose device answered USB_RET_ASYNC (lines 382-391)
AsyncParked(p, devadr, tlen) ==
    [p EXCEPT !.devadr = devadr, !.len = tlen, !.async = "INFLIGHT",
              !.needs_service = FALSE]

\* dwc2_handle_packet(s, devadr, dev, ep, index, send); dev is TRUE iff the
\* device pointer is not NULL, resp is what the attached device answers
\* (send) or has put into the packet before calling back (not send).
dwc2_handle_packet(st, devadr, dev, c, send, resp) ==
    Eval(st, LAMBDA s :
    IF ~PacketAccepted(s, c)
    THEN s
    ELSE
    LET tlen == TLen(s, c, send)
        \* usb_handle_packet(NULL, p) gives USB_RET_NODEV
        st0 == IF send /\ ~dev THEN "NODEV" ELSE resp.status
        actual == IF send /\ ~dev THEN 0 ELSE DevActual(resp, tlen)
        \* line 358: p->async = DWC2_ASYNC_NONE, before usb_handle_packet
        sa == IF send THEN [s EXCEPT !.packet[c].async = "NONE"] ELSE s
        se == [sa EXCEPT !.ev = [@ EXCEPT !.chan = c, !.status = st0,
                                          !.over = actual > tlen,
                                          !.actual = actual,
                                          !.fault = DmaFaults(s, c, send, st0, actual, tlen)]]
    IN  IF st0 = "ASYNC"
        THEN IF se.packet[c].async = "INFLIGHT"
             THEN [se EXCEPT !.aborted = TRUE]   \* assert(p->async != DWC2_ASYNC_INFLIGHT)
             ELSE [se EXCEPT !.packet[c] = AsyncParked(@, devadr, tlen),
                             !.held[c] = @ + 1]
        ELSE PacketDone(se, devadr, c, st0, actual, tlen))

\* dwc2_async_packet_complete
dwc2_async_packet_complete(st, c, resp) ==
    Eval(st, LAMBDA s :
    LET p == s.packet[c]
        dev == dwc2_find_device(s, p.devadr)
        s0 == [s EXCEPT !.held[c] = @ - 1,
                        !.ev = [@ EXCEPT !.op = "complete", !.chan = c,
                                         !.status = resp.status]]
    IN  IF p.async # "INFLIGHT"
        THEN [s0 EXCEPT !.aborted = TRUE]        \* assert(p->async == DWC2_ASYNC_INFLIGHT)
        ELSE IF resp.status = "REMOVE_FROM_QUEUE"
        THEN s0
        ELSE LET s1 == dwc2_handle_packet(s0, p.devadr, dev, c, FALSE, resp)
             IN  IF s1.aborted THEN s1
                 ELSE [s1 EXCEPT !.packet[c].async = "FINISHED",
                                 !.bh_sched = TRUE])

\* a scan that starts at channel 0 in every pass
ScanOrderFromZero(s) == [i \in 1 .. NbChan |-> i - 1]

\* the channels in the order dwc2_work_bh scans them, from next_chan
ScanOrder(s) == [i \in 1 .. NbChan |-> (s.next_chan + i - 1) % NbChan]

\* the channel dwc2_work_bh services: the first one in scan order that needs service
ServicedChan(s) ==
    LET order == ScanOrder(s)
        hits == {i \in 1 .. NbChan : s.packet[order[i]].needs_service}
    IN  IF hits = {} THEN -1
        ELSE order[CHOOSE i \in hits : \A j \in hits : i <= j]

\* a bottom half that serviced a channel and did not set the timer
WorkBhKeepsTimer(found) == FALSE

\* timer_mod(s->frame_timer, ...) at the end of dwc2_work_bh
WorkBhArmsTimer(found) == found

\* a guard that never finds a drain in progress
WorkBhNeverBusy(s) == FALSE

\* if (s->working) return;  (lines 652-654)
WorkBhBusy(s) == s.working

\* dwc2_work_bh, run from its first line to its last
dwc2_work_bh(st, resp) ==
    Eval(st, LAMBDA s :
    IF WorkBhBusy(s)
    THEN [s EXCEPT !.ev.op = "busy"]
    ELSE LET chan == ServicedChan(s)
         IN  IF chan = -1
             THEN [s EXCEPT !.working = FALSE]
             ELSE LET p == s.packet[chan]
                      dev == dwc2_find_device(s, p.devadr)
                      s0 == [s EXCEPT !.ev.op = "drain"]
                      s1 == dwc2_handle_packet(s0, p.devadr, dev, chan, TRUE, resp)
                  IN  [s1 EXCEPT !.next_chan = (chan + 1) % NbChan,
                                 !.timer_armed = @ \/ WorkBhArmsTimer(TRUE),
                                 !.working = FALSE])

\* the drain stops in the device: dwc2_work_bh found a channel whose packet
\* dwc2_handle_packet hands to a device (usb_handle_packet, line 359)
WorkBhCallsDevice(s) ==
    LET chan == ServicedChan(s)
    IN  /\ chan # -1
        /\ PacketAccepted(s, chan)
        /\ dwc2_find_device(s, s.packet[chan].devadr)

\* dwc2_work_bh from its first line to the call of usb_handle_packet
\* (lines 651-666 and 295-358); a drain that calls no device runs to its end
dwc2_work_bh_enter(st) ==
    Eval(st, LAMBDA s :
    IF WorkBhBusy(s)
    THEN s
    ELSE IF ~WorkBhCallsDevice(s)
    THEN dwc2_work_bh(s, [status |-> "NODEV", kind |-> "zero"])
    ELSE LET chan == ServicedChan(s)
         IN  [s EXCEPT !.working = TRUE,
                       !.bh_chan = chan,
                       !.packet[chan].async = "NONE"])

\* dwc2_work_bh from the return of usb_handle_packet to its last line
\* (lines 361-475 and 667-682)
dwc2_work_bh_leave(st, resp) ==
    Eval(st, LAMBDA s :
    LET chan == s.bh_chan
        p == s.packet[chan]
        s0 == [s EXCEPT !.ev.op = "drain"]
        s1 == dwc2_handle_packet(s0, p.devadr, TRUE, chan, TRUE, resp)
    IN  [s1 EXCEPT !.next_chan = (chan + 1) % NbChan,
                   !.timer_armed = @ \/ WorkBhArmsTimer(TRUE),
                   !.working = FALSE,
                   !.bh_chan = -1])

\* dwc2_wakeup
dwc2_wakeup(st) ==
    Eval(st, LAMBDA s :
    LET s1 == IF "SUSP" \in s.hprt0
              THEN dwc2_raise_global_irq([s EXCEPT !.hprt0 = @ \cup {"RES"}], "PRTINT")
              ELSE s
    IN  [s1 EXCEPT !.bh_sched = TRUE])

\* dwc2_enable_chan
dwc2_enable_chan(st, c, resp) ==
    Eval(st, LAMBDA s :
    LET chr == s.hcchar[c]
        len == s.hctsiz[c].xfersize
        dev == dwc2_find_device(s, chr.devaddr)
    IN  IF ~dev
        THEN [s EXCEPT !.ev = [NoEv EXCEPT !.op = "enable", !.chan = c,
                                           !.status = "NOTFOUND"]]
        ELSE LET s0 == [s EXCEPT !.packet[c].small = ~(len > SmallXferLimit),
                                 !.ev.op = "enable"]
                 s1 == dwc2_handle_packet(s0, chr.devaddr, dev, c, TRUE, resp)
             IN  [s1 EXCEPT !.bh_sched = TRUE])

(***************************************************************************)
(* Root port callbacks.                                                    *)
(***************************************************************************)
\* the HPRT0 speed field for a device speed
SpeedBits(speed) ==
    IF speed = "low" THEN {"SPD_B1"}
    ELSE IF speed = "full" THEN {"SPD_B0"}
    ELSE {}

\* s->usb_frame_time for the speed of the device (lines 515-528)
UsbFrameTime(speed) ==
    IF speed = "high" THEN NANOSECONDS_PER_SECOND \div 8000
    ELSE NANOSECONDS_PER_SECOND \div 1000

\* s->usb_bit_time for the speed of the device (lines 515-528)
UsbBitTime(speed) ==
    IF speed = "high" THEN NANOSECONDS_PER_SECOND \div USB_HZ_HS
    ELSE NANOSECONDS_PER_SECOND \div USB_HZ_FS

\* dwc2_attach, with port->dev attached
dwc2_attach(st) ==
    Eval(st, LAMBDA s :
    IF s.udev_attached
    THEN [s EXCEPT !.aborted = TRUE]    \* assert(!USB_DEVICE(s->device)->attached)
    ELSE
    LET s1 == [s EXCEPT !.hprt0 = ((@ \ HPRT0_SPD_MASK) \cup SpeedBits(s.dev_speed))
                                   \cup {"CONNDET", "CONNSTS"},
                        !.gotgctl = @ \cup {"ASESVLD"},
                        !.usb_frame_time = UsbFrameTime(s.dev_speed),
                        !.usb_bit_time = UsbBitTime(s.dev_speed)]
    IN  dwc2_raise_global_irq(dwc2_bus_start(s1), {"PRTINT", "CURMODE_HOST"}))

\* dwc2_detach
dwc2_detach(st) ==
    Eval(st, LAMBDA s :
    LET s0 == dwc2_bus_stop(s)
        s1 == [s0 EXCEPT !.hprt0 = (@ \ (HPRT0_SPD_MASK \cup {"SUSP", "ENA", "CONNSTS"}))
                                   \cup {"CONNDET", "ENACHG"},
                        !.gotgctl = @ \ {"ASESVLD"}]
    IN  dwc2_raise_global_irq(s1, {"PRTINT", "DISCONNINT"}))

\* usb_port_reset(&s->uport): usb_detach, usb_attach, usb_device_reset
usb_port_reset(s) ==
    [dwc2_attach(dwc2_detach(s)) EXCEPT !.dev_addr = 0]

(***************************************************************************)
(* Register writes.                                                        *)
(***************************************************************************)
\* a write that flips the bits written as 1
W1CToggle(old, val) == (old \ val) \cup (val \ old)

\* clear the write-1-to-clear bits:  val |= ~old; val = ~val;
W1C(old, val) == old \ val

\* dwc2_glbreg_write, case GAHBCFG: iflg
GahbcfgUpdatesIrq(old, val) ==
    "GLBL_INTR_EN" \in val /\ "GLBL_INTR_EN" \notin old

glbreg_write_GAHBCFG(st, val) ==
    Eval(st, LAMBDA s :
    LET s1 == [s EXCEPT !.gahbcfg = val]
    IN  IF GahbcfgUpdatesIrq(s.gahbcfg, val) THEN dwc2_update_irq(s1) ELSE s1)

glbreg_write_GINTSTS(st, val) ==
    Eval(st, LAMBDA s :
    LET old == s.gintsts
        v == W1C(old, val) \cup (old \cap GINTSTS_READONLY)
    IN  dwc2_update_irq([s EXCEPT !.gintsts = v]))

\* dwc2_glbreg_write, case GOTGCTL
glbreg_write_GOTGCTL(s, val) ==
    [s EXCEPT !.gotgctl = (val \ GOTGCTL_READONLY) \cup (@ \cap GOTGCTL_READONLY)]

glbreg_write_GINTMSK(s, val) ==
    dwc2_update_irq([s EXCEPT !.gintmsk = val])

\* hreg0nm[]: the words of the host bank by index; HPRT0 is the last, the
\* words named <rsvd> are the reserved ones
HREG0_HFNUM == 2
HREG0_HPTXSTS == 4
HREG0_HAINT == 5
HREG0_HPRT0 == 16
Hreg0Reserved == {3} \cup (8 .. 15)
Hreg0ReadOnly == {HREG0_HFNUM, HREG0_HPTXSTS, HREG0_HAINT}

\* dwc2_hreg0_read of a reserved word or of an offset above HPRT0, if the
\* range were not checked and the offset wrapped into the bank
dwc2_hreg0_read_word_aliased(st, index) ==
    Eval(st, LAMBDA s :
    LET val == IF index > HREG0_HPRT0
               THEN s.hreg0_rsvd[index - HREG0_HPRT0 + 2]
               ELSE s.hreg0_rsvd[index]
    IN  [s EXCEPT !.ev = [NoEv EXCEPT !.op = "rd_hreg0", !.chan = index,
                                      !.actual = val]])

\* dwc2_hreg0_read of a reserved word or of an offset above HPRT0: the value
\* returned is left in the event
dwc2_hreg0_read_word(st, index) ==
    Eval(st, LAMBDA s :
    LET val == IF index > HREG0_HPRT0 THEN 0 ELSE s.hreg0_rsvd[index]
    IN  [s EXCEPT !.ev = [NoEv EXCEPT !.op = "rd_hreg0", !.chan = index,
                                      !.actual = val]])

\* val = s->glbreg[index], s->hreg0[index], s->hreg1[index], s->dreg[index],
\* s->diepreg[index], s->doepreg[index]: the stored value of a register
RegValue(s, reg) ==
    CASE reg = "GINTSTS" -> s.gintsts
      [] reg = "GINTMSK" -> s.gintmsk
      [] reg = "GAHBCFG" -> s.gahbcfg
      [] reg = "GOTGCTL" -> s.gotgctl
      [] reg = "HAINT" -> s.haint
      [] reg = "HPRT0" -> s.hprt0
      [] reg = "HCINT0" -> s.hcint[0]
      [] reg = "DCTL" -> s.dctl
      [] reg = "DAINT" -> s.daint
      [] reg = "DIEPINT0" -> s.diepint[0]
      [] reg = "DOEPINT0" -> s.doepint[0]

\* dwc2_hsotg_read of a register that has no case of its own in the read
\* function of its bank: the value returned is left in the event
dwc2_hsotg_read(st, reg) ==
    Eval(st, LAMBDA s :
    [s EXCEPT !.ev = [NoEv EXCEPT !.op = "rd", !.status = reg,
                                  !.intr = RegValue(s, reg)]])

\* dwc2_hreg0_write of a read-only register, of a reserved word (the default
\* case) or of an offset above HPRT0
dwc2_hreg0_write_word(st, index, val) ==
    Eval(st, LAMBDA s :
    LET s1 == IF index > HREG0_HPRT0 THEN s
              ELSE IF index \in Hreg0ReadOnly THEN s
              ELSE [s EXCEPT !.hreg0_rsvd[index] = val]
    IN  [s1 EXCEPT !.ev = [NoEv EXCEPT !.op = "wr_hreg0", !.chan = index,
                                       !.actual = val]])

\* dwc2_hreg0_write, case HAINTMSK
hreg0_write_HAINTMSK(s, val) ==
    [s EXCEPT !.haintmsk = val \cap (0 .. 15)]

\* a port reset that enables the port whether or not a device is attached
Hprt0StoredNoDevice(st, wval) ==
    Eval(st, LAMBDA s :
    LET old == s.hprt0
        v1 == wval \cup (old \cap HPRT0_READONLY)
        v2 == v1 \cup (old \cap {"SUSP", "RES"})
        v3 == IF "ENA" \notin old /\ "ENA" \in v2 THEN v2 \ {"ENA"} ELSE v2
        tval == W1C(old \cap HPRT0_W1C, v3 \cap HPRT0_W1C) \cap HPRT0_W1C
        v4 == (v3 \ HPRT0_W1C) \cup tval
        prst == "RST" \notin v4 /\ "RST" \in old
        v5 == IF prst THEN v4 \cup {"ENA", "ENACHG"} ELSE v4
    IN  [val |-> v5, prst |-> prst /\ s.dev_attached])

\* the value dwc2_hreg0_write stores for HPRT0, and prst
Hprt0Stored(st, wval) ==
    Eval(st, LAMBDA s :
    LET old == s.hprt0
        v1 == wval \cup (old \cap HPRT0_READONLY)
        v2 == v1 \cup (old \cap {"SUSP", "RES"})
        v3 == IF "ENA" \notin old /\ "ENA" \in v2 THEN v2 \ {"ENA"} ELSE v2
        tval == W1C(old \cap HPRT0_W1C, v3 \cap HPRT0_W1C) \cap HPRT0_W1C
        v4 == (v3 \ HPRT0_W1C) \cup tval
        prst == "RST" \notin v4 /\ "RST" \in old /\ s.dev_attached
        v5 == IF prst THEN v4 \cup {"ENA", "ENACHG"} ELSE v4
    IN  [val |-> v5, prst |-> prst])

hreg0_write_HPRT0(st, wval) ==
    Eval(st, LAMBDA s :
    LET r == Hprt0Stored(s, wval)
        iflg == r.val \cap {"OVRCURRCHG", "ENACHG", "CONNDET"} # {}
        s1 == IF r.prst THEN usb_port_reset(s) ELSE s
        v == IF r.prst THEN r.val \ {"CONNDET"} ELSE r.val
        s2 == [s1 EXCEPT !.hprt0 = v]
    IN  IF iflg
        THEN dwc2_raise_global_irq(s2, {"PRTINT"})
        ELSE dwc2_lower_global_irq(s2, {"PRTINT"}))

\* a disable request that stores the bits as they were written
HccharStoredAsWritten(old, val) ==
    IF val.chdis /\ ~old.chdis
    THEN [val |-> val, disflg |-> TRUE, enflg |-> FALSE]
    ELSE [val |-> [val EXCEPT !.chena = val.chena \/ old.chena],
          disflg |-> FALSE, enflg |-> val.chena /\ ~old.chena]

\* dwc2_hreg1_write, case HCCHAR: the value stored and the two flags
HccharStored(old, val) ==
    IF val.chdis /\ ~old.chdis
    THEN [val |-> [val EXCEPT !.chena = FALSE, !.chdis = FALSE],
          disflg |-> TRUE, enflg |-> FALSE]
    ELSE LET v1 == [val EXCEPT !.chdis = val.chdis \/ old.chdis]
         IN  IF v1.chena /\ ~old.chena
             THEN [val |-> [v1 EXCEPT !.chdis = FALSE],
                   disflg |-> FALSE, enflg |-> TRUE]
             ELSE [val |-> [v1 EXCEPT !.chena = v1.chena \/ old.chena],
                   disflg |-> FALSE, enflg |-> FALSE]

hreg1_write_HCCHAR(st, c, val, resp) ==
    Eval(st, LAMBDA s :
    LET r == HccharStored(s.hcchar[c], val)
        s1 == [s EXCEPT !.hcchar[c] = r.val]
        s2 == IF r.disflg
              THEN [s1 EXCEPT !.hcint[c] = @ \cup {"CHHLTD"},
                              !.ev = [NoEv EXCEPT !.op = "disable", !.chan = c]]
              ELSE s1
        s3 == IF r.enflg THEN dwc2_enable_chan(s2, c, resp) ELSE s2
    IN  IF r.disflg THEN dwc2_update_hc_irq(s3, c) ELSE s3)

hreg1_write_HCINT(s, c, val) ==
    dwc2_update_hc_irq([s EXCEPT !.hcint[c] = W1C(@, val) \cap HCINT_BITS], c)

hreg1_write_HCINTMSK(s, c, val) ==
    dwc2_update_hc_irq([s EXCEPT !.hcintmsk[c] = val \cap HCINT_BITS], c)

hreg1_write_HCTSIZ(s, c, val) == [s EXCEPT !.hctsiz[c] = val]

hreg1_write_HCDMA(s, c, val) == [s EXCEPT !.hcdma[c] = val]

(***************************************************************************)
(* Device mode registers.  Of DIEPCTL / DOEPCTL the flag bits are          *)
(* modelled; the EPTYPE and MPS fields are left out.                       *)
(***************************************************************************)
dwc2_update_in_ep(st, ep) ==
    Eval(st, LAMBDA s :
    LET s1 == IF "SNAK" \in s.diepctl[ep]
              THEN [s EXCEPT !.diepctl[ep] = (@ \cup {"NAKSTS"}) \ {"SNAK"},
                             !.diepint[ep] = @ \cup {"INEPNAKEFF"}]
              ELSE s
        s2 == IF "CNAK" \in s1.diepctl[ep]
              THEN [s1 EXCEPT !.diepctl[ep] = @ \ {"NAKSTS", "CNAK"},
                              !.diepint[ep] = @ \ {"INEPNAKEFF"}]
              ELSE s1
        s3 == IF "EPDIS" \in s2.diepctl[ep]
              THEN [s2 EXCEPT !.diepctl[ep] = @ \ {"EPDIS", "EPENA"},
                              !.diepint[ep] = @ \cup {"EPDISBLD"}]
              ELSE s2
    IN  [s3 EXCEPT !.dev_bh_sched = TRUE])

dwc2_update_out_ep(st, ep) ==
    Eval(st, LAMBDA s :
    LET s1 == IF "SNAK" \in s.doepctl[ep]
              THEN [s EXCEPT !.doepctl[ep] = (@ \cup {"NAKSTS"}) \ {"SNAK"},
                             !.doepint[ep] = @ \cup {"INEPNAKEFF"}]
              ELSE s
        s2 == IF "CNAK" \in s1.doepctl[ep]
              THEN [s1 EXCEPT !.doepctl[ep] = @ \ {"NAKSTS", "CNAK"},
                              !.doepint[ep] = @ \ {"INEPNAKEFF"}]
              ELSE s1
        s3 == IF "EPDIS" \in s2.doepctl[ep]
              THEN [s2 EXCEPT !.doepctl[ep] = @ \ {"EPDIS", "EPENA"},
                              !.doepint[ep] = @ \cup {"EPDISBLD"}]
              ELSE s2
    IN  [s3 EXCEPT !.dev_bh_sched = TRUE])

\* for (i = 0; i < DWC2_NB_EP; i++) dwc2_update_ep_irq(s, i), from endpoint i on
RECURSIVE UpdateEpIrqFrom(_, _)
UpdateEpIrqFrom(st, i) ==
    Eval(st, LAMBDA s :
    IF i \notin Eps THEN s ELSE UpdateEpIrqFrom(dwc2_update_ep_irq(s, i), i + 1))

\* dwc2_dreg_write, cases DIEPMSK, DOEPMSK, DAINTMSK: iflg
dreg_write_DIEPMSK(s, val) ==
    dwc2_update_irq(UpdateEpIrqFrom([s EXCEPT !.diepmsk = val], 0))

dreg_write_DOEPMSK(s, val) ==
    dwc2_update_irq(UpdateEpIrqFrom([s EXCEPT !.doepmsk = val], 0))

dreg_write_DAINTMSK(s, val) ==
    dwc2_update_irq(UpdateEpIrqFrom([s EXCEPT !.daintmsk = val], 0))

\* the value dwc2_diepreg_write stores for DIEPCTL
DiepctlStored(old, val, ep) ==
    LET v1 == (val \ {"NAKSTS"}) \cup (old \cap {"NAKSTS"})
        v2 == v1 \cup (old \cap {"EPENA", "EPDIS", "USBACTEP"})
    IN  IF ep = 0 THEN v2 \cup (old \cap {"STALL"}) \cup {"USBACTEP"} ELSE v2

diepreg_write_DIEPCTL(st, ep, val) ==
    Eval(st, LAMBDA s :
    LET s1 == [s EXCEPT !.diepctl[ep] = DiepctlStored(@, val, ep)]
        s2 == dwc2_update_in_ep(s1, ep)
    IN  dwc2_update_ep_irq([s2 EXCEPT !.dev_bh_sched = TRUE], ep))

\* dwc2_diepreg_write, case DIEPINT:  val = old & ~val
diepreg_write_DIEPINT(s, ep, val) ==
    dwc2_update_ep_irq([s EXCEPT !.diepint[ep] = W1C(@, val)], ep)

\* the value dwc2_doepreg_write stores for DOEPCTL
DoepctlStored(old, val, ep) ==
    LET v1 == (val \ {"NAKSTS"}) \cup (old \cap {"NAKSTS"})
        v2 == v1 \cup (old \cap {"EPENA", "USBACTEP", "EPDIS"})
    IN  IF ep = 0
        THEN ((v2 \cup (old \cap {"STALL"})) \ {"EPDIS"}) \cup {"USBACTEP"}
        ELSE v2

doepreg_write_DOEPCTL(st, ep, val) ==
    Eval(st, LAMBDA s :
    LET s1 == [s EXCEPT !.doepctl[ep] = DoepctlStored(@, val, ep)]
        s2 == dwc2_update_out_ep(s1, ep)
    IN  dwc2_update_ep_irq([s2 EXCEPT !.dev_bh_sched = TRUE], ep))

\* dwc2_doepreg_write, case DOEPINT:  val = old & ~val
doepreg_write_DOEPINT(s, ep, val) ==
    dwc2_update_ep_irq([s EXCEPT !.doepint[ep] = W1C(@, val)], ep)

(***************************************************************************)
(* Device mode packets.  The descriptors of the guest lie at the multiples *)
(* of sizeof(struct dwc2_dma_desc); of a descriptor the buffer status, the *)
(* byte count and the L, SP and SR flags are modelled.                     *)
(***************************************************************************)
\* sizeof(struct dwc2_dma_desc)
DescSize == 8
DescSlotIds == 0 .. (DescSlots - 1)
AddrWrap == DescSlots * DescSize

NoDesc == [sts |-> "HOST_BUSY", nbytes |-> 0, l |-> FALSE, sp |-> FALSE, sr |-> FALSE]

\* dma_memory_read(&s->dma_as, addr, &desc, sizeof(desc)) == MEMTX_OK
DescReadable(addr) == addr % DescSize = 0

\* x / m and x % m of the C code; for m = 0 the build either traps or, where
\* the division does not trap, gives 0 and x
CDiv(x, m) == IF m = 0 THEN 0 ELSE x \div m
CMod(x, m) == IF m = 0 THEN x ELSE x % m

\* a consumed descriptor that is handed back ready
DescStillReady(d, amt, last, short, setup) ==
    [d EXCEPT !.nbytes = @ - amt,
              !.l = @ \/ last,
              !.sp = @ \/ (last /\ short),
              !.sr = @ \/ (last /\ setup)]

\* the descriptor written back (lines 1268-1282, 1431-1451): the bytes left,
\* the flags, DEV_DMA_BUFF_STS_DMADONE
DescConsumed(d, amt, last, short, setup) ==
    [d EXCEPT !.sts = "DMADONE",
              !.nbytes = @ - amt,
              !.l = @ \/ last,
              !.sp = @ \/ (last /\ short),
              !.sr = @ \/ (last /\ setup)]

\* the while loops at lines 1259-1287 and 1422-1458, from the state w of the
\* walk: [mem, addr, size (sglist.size), taken (the bytes of each descriptor),
\* diverged]; fuel is the number of descriptors the memory holds, a walk
\* that wants more does not end
RECURSIVE DescWalk(_, _, _, _, _, _)
DescWalk(w, pktsize, out, setup, mps, fuel) ==
    IF ~DescReadable(w.addr)
    THEN w
    ELSE LET slot == w.addr \div DescSize
             d == w.mem[slot]
         IN  IF d.sts # "HOST_READY"
             THEN w
             ELSE IF fuel = 0
             THEN [w EXCEPT !.diverged = TRUE]
             ELSE LET last == w.size + d.nbytes >= pktsize
                      amt == IF last THEN pktsize - w.size ELSE d.nbytes
                      short == /\ out
                               /\ \/ CMod(w.size + amt, mps) # 0
                                  \/ w.size + amt = 0
                      nd == DescConsumed(d, amt, last, short, out /\ setup)
                      w1 == [w EXCEPT !.mem[slot] = nd,
                                      !.addr = (@ + DescSize) % AddrWrap,
                                      !.size = @ + amt,
                                      !.taken = Append(@, amt)]
                  IN  IF nd.l THEN w1
                      ELSE DescWalk(w1, pktsize, out, setup, mps, fuel - 1)

\* the walk of an endpoint from its DMA address
WalkFrom(s, addr, pktsize, out, setup, mps) ==
    DescWalk([mem |-> s.desc_mem, addr |-> addr, size |-> 0, taken |-> <<>>,
              diverged |-> FALSE],
             pktsize, out, setup, mps, DescSlots)

\* the width of the PKTCNT field the code writes back (lines 1337-1349,
\* 1498-1511): DIEPTSIZ0_PKTCNT, DOEPTSIZ0_PKTCNT, DXEPTSIZ_PKTCNT
PktcntWrap(ep, out) == IF ep # 0 THEN 1024 ELSE IF out THEN 2 ELSE 4

\* p->status at lines 1355-1359 and 1513-1517; the % is reached when
\* amtDone < pktsize
TokenStatus(amtDone, pktsize, mps) ==
    IF amtDone < pktsize /\ CMod(amtDone, mps) = 0 /\ amtDone > 0
    THEN "ASYNC" ELSE "SUCCESS"

\* where the handler divides by an mps of zero: "walk", inside the loop, for
\* the short flag at line 1433 (budget: the walk came to the descriptor that
\* uses the budget up); "after", for the packet count at lines 1333 and 1494
\* or the status at lines 1355 and 1513; "none"
DivByZero(desc, budget, amtDone, pktsize, mps) ==
    IF mps = 0 /\ desc /\ budget THEN "walk"
    ELSE IF mps = 0 /\ (amtDone < pktsize \/ (~desc /\ amtDone > 0)) THEN "after"
    ELSE "none"

\* the division by zero traps, or gives the C operators above
Fault(trap, desc, budget, amtDone, pktsize, mps) ==
    IF trap THEN DivByZero(desc, budget, amtDone, pktsize, mps) ELSE "none"

\* the checks in the other order
InRefusalNakFirst(ctl, gnak) ==
    IF "USBACTEP" \notin ctl \/ "NAKSTS" \in ctl \/ gnak THEN "NAK"
    ELSE IF "STALL" \in ctl THEN "STALL"
    ELSE "none"

\* the checks of an IN token before any data moves (lines 1211-1220): the
\* status the token is refused with, or "none"; gnak: GINTSTS_GINNAKEFF
InRefusal(ctl, gnak) ==
    IF "STALL" \in ctl THEN "STALL"
    ELSE IF "USBACTEP" \notin ctl \/ "NAKSTS" \in ctl \/ gnak THEN "NAK"
    ELSE "none"

\* dwc2_device_process_packet, case USB_TOKEN_IN
process_packet_IN(st, ep, pktsize, trap) ==
    Eval(st, LAMBDA s :
    LET t0 == [NoTok EXCEPT !.pid = "IN", !.ep = ep, !.pktsize = pktsize,
                            !.start = s.diepdma[ep]]
        ctl == s.diepctl[ep]
        sz == s.dieptsiz[ep].xfersize
        pktcnt == s.dieptsiz[ep].pktcnt
        mps == s.diepmps[ep]
        refusal == InRefusal(ctl, "GINNAKEFF" \in s.gintsts)
    IN  IF refusal # "none"
        THEN [s EXCEPT !.tok = [t0 EXCEPT !.status = refusal]]
        ELSE IF "EPENA" \notin ctl
        THEN [s EXCEPT !.tok = [t0 EXCEPT !.status = "ASYNC"]]
        ELSE IF "DESCDMA_EN" \in s.dcfg
        THEN LET w == WalkFrom(s, s.diepdma[ep], pktsize, FALSE, FALSE, mps)
                 amtDone == w.size
             IN  [s EXCEPT !.desc_mem = w.mem,
                           !.diepdma[ep] = w.addr,
                           !.diepctl[ep] = @ \ {"EPENA"},
                           !.diepint[ep] = @ \cup {"XFERCOMPL"},
                           !.aborted = @ \/ Fault(trap, TRUE, FALSE, amtDone, pktsize, mps) # "none",
                           !.tok = [t0 EXCEPT !.desc = TRUE, !.taken = w.taken,
                                              !.fault = Fault(trap, TRUE, FALSE, amtDone, pktsize, mps),
                                              !.actual = amtDone,
                                              !.diverged = w.diverged,
                                              !.status = TokenStatus(amtDone, pktsize, mps)]]
        ELSE LET amtDone == IF sz > pktsize THEN pktsize ELSE sz
             IN  IF pktsize # 0 /\ amtDone = 0
                 THEN [s EXCEPT !.diepint[ep] = @ \cup {"INTKNTXFEMP"},
                                !.tok = [t0 EXCEPT !.status = "ASYNC"]]
                 ELSE LET npktcnt == IF amtDone > 0
                                     THEN pktcnt - CDiv(amtDone - 1 + mps, mps)
                                     ELSE IF pktsize = 0 THEN pktcnt - 1
                                     ELSE pktcnt
                          s1 == [s EXCEPT !.diepdma[ep] =
                                              IF amtDone > 0 /\ @ # 0
                                              THEN (@ + amtDone) % AddrWrap ELSE @,
                                          !.dieptsiz[ep] =
                                              [pktcnt |-> npktcnt % PktcntWrap(ep, FALSE),
                                               xfersize |-> sz - amtDone]]
                          s2 == IF sz = amtDone
                                THEN [s1 EXCEPT !.diepctl[ep] = @ \ {"EPENA"},
                                                !.diepint[ep] = @ \cup {"XFERCOMPL"}]
                                ELSE s1
                      IN  [s2 EXCEPT !.aborted = @ \/ Fault(trap, FALSE, FALSE, amtDone, pktsize, mps) # "none",
                                     !.tok = [t0 EXCEPT !.actual = amtDone,
                                                        !.fault = Fault(trap, FALSE, FALSE, amtDone, pktsize, mps),
                                                        !.status = TokenStatus(amtDone, pktsize, mps)]])

\* the ENUMSPD field for high speed, and the SET_ADDRESS request code (lines
\* 1531-1533)
DSTS_ENUMSPD_HS == 0
USB_REQ_SET_ADDRESS == 5

\* any request with the code of SET_ADDRESS
IsSetAddressAnyType(req) == req.bRequest = USB_REQ_SET_ADDRESS

\* setup.bmRequestType == 0 && setup.bRequest == USB_REQ_SET_ADDRESS, of the
\* first 8 bytes of the packet
IsSetAddress(req) == req.bmRequestType = 0 /\ req.bRequest = USB_REQ_SET_ADDRESS

\* dwc2_device_process_packet, cases USB_TOKEN_SETUP and USB_TOKEN_OUT;
\* set_address: the packet holds a SET_ADDRESS request
process_packet_OUT(st, ep, setup, pktsize, set_address, trap) ==
    Eval(st, LAMBDA s0 :
    LET s == IF setup /\ ep = 0 /\ "STALL" \in (s0.diepctl[ep] \cup s0.doepctl[ep])
             THEN [s0 EXCEPT !.diepctl[ep] = @ \ {"STALL"},
                             !.doepctl[ep] = @ \ {"STALL"}]
             ELSE s0
        t0 == [NoTok EXCEPT !.pid = IF setup THEN "SETUP" ELSE "OUT",
                            !.ep = ep, !.pktsize = pktsize,
                            !.start = s.doepdma[ep]]
        ctl == s.doepctl[ep]
        sz == s.doeptsiz[ep].xfersize
        pktcnt == s.doeptsiz[ep].pktcnt
        mps == s.doepmps[ep]
    IN  IF "STALL" \in ctl
        THEN [s EXCEPT !.tok = [t0 EXCEPT !.status = "STALL"]]
        ELSE IF \/ "NAKSTS" \in ctl /\ ~setup
                \/ "USBACTEP" \notin ctl
                \/ "GOUTNAKEFF" \in s.gintsts
        THEN [s EXCEPT !.tok = [t0 EXCEPT !.status = "NAK"]]
        ELSE IF "EPENA" \notin ctl
        THEN [s EXCEPT !.doepint[ep] = IF ep = 0 THEN @ \cup {"OUTTKNEPDIS"} ELSE @,
                       !.tok = [t0 EXCEPT !.status = "ASYNC"]]
        ELSE
        LET desc == "DESCDMA_EN" \in s.dcfg
            w == WalkFrom(s, s.doepdma[ep], pktsize, TRUE, setup, mps)
            fifoDone == IF sz > pktsize THEN pktsize ELSE sz
            amtDone == IF desc THEN w.size ELSE fifoDone
            fault == Fault(trap, desc, w.taken # <<>> /\ w.size = pktsize,
                           amtDone, pktsize, mps)
            npktcnt == IF amtDone > 0
                       THEN pktcnt - CDiv(amtDone - 1 + mps, mps)
                       ELSE IF pktsize = 0 THEN pktcnt - 1
                       ELSE pktcnt
            s1 == IF desc
                  THEN [s EXCEPT !.desc_mem = w.mem, !.doepdma[ep] = w.addr]
                  ELSE [s EXCEPT !.doepdma[ep] =
                                     IF amtDone > 0 /\ @ # 0
                                     THEN (@ + amtDone) % AddrWrap ELSE @,
                                 !.doeptsiz[ep] =
                                     [pktcnt |-> IF ep = 0 /\ setup THEN pktcnt
                                                 ELSE npktcnt % PktcntWrap(ep, TRUE),
                                      xfersize |-> sz - amtDone]]
            s2 == IF setup /\ amtDone >= 8
                  THEN LET s3 == IF set_address /\ ep = 0
                                 THEN dwc2_raise_global_irq(
                                          [s1 EXCEPT !.dsts = DSTS_ENUMSPD_HS],
                                          {"ENUMDONE"})
                                 ELSE s1
                       IN  [s3 EXCEPT !.doepint[ep] = @ \cup {"SETUP", "SETUP_RCVD"}]
                  ELSE s1
        IN  [s2 EXCEPT !.doepctl[ep] = @ \ {"EPENA"},
                       !.doepint[ep] = @ \cup {"XFERCOMPL"},
                       !.aborted = @ \/ fault # "none",
                       !.tok = [t0 EXCEPT !.desc = desc,
                                          !.fault = fault,
                                          !.taken = IF desc THEN w.taken ELSE <<>>,
                                          !.actual = amtDone,
                                          !.diverged = desc /\ w.diverged,
                                          !.status = TokenStatus(amtDone, pktsize, mps)]])

\* dwc2_device_process_packet
dwc2_device_process_packet(st, ep, pid, pktsize, set_address, trap) ==
    Eval(st, LAMBDA s :
    LET s1 == IF pid = "IN" THEN process_packet_IN(s, ep, pktsize, trap)
              ELSE process_packet_OUT(s, ep, pid = "SETUP", pktsize, set_address, trap)
    IN  dwc2_update_ep_irq([s1 EXCEPT !.ev.op = "token"], ep))

\* dwc2_usb_device_handle_attach
dwc2_usb_device_handle_attach(st) ==
    Eval(st, LAMBDA s :
    IF s.dev_attached
    THEN [s EXCEPT !.aborted = TRUE]    \* assert(!s->uport.dev)
    ELSE LET s1 == [s EXCEPT !.gotgctl = @ \cup {"BSESVLD", "CONID_B"}]
         IN  dwc2_raise_global_irq(dwc2_lower_global_irq(s1, {"CURMODE_HOST"}),
                                   {"CONIDSTSCHNG"}))

\* dwc2_usb_device_handle_detach
dwc2_usb_device_handle_detach(st) ==
    Eval(st, LAMBDA s :
    dwc2_raise_global_irq([s EXCEPT !.gotgctl = @ \ {"BSESVLD", "CONID_B"}],
                          {"CURMODE_HOST", "CONIDSTSCHNG"}))

DCTL_READONLY == {"GOUTNAKSTS", "GNPINNAKSTS"}
DCTL_COMMANDS == {"CGNPINNAK", "CGOUTNAK", "SGNPINNAK", "SGOUTNAK"}

\* the value dwc2_dreg_write stores for DCTL
DctlStored(old, val) ==
    (((val \ DCTL_READONLY) \cup (old \cap DCTL_READONLY)) \ DCTL_COMMANDS)

\* dwc2_dreg_write, case DCTL
dreg_write_DCTL(st, val) ==
    Eval(st, LAMBDA s :
    LET old == s.dctl
        s1 == IF "CGNPINNAK" \in val THEN dwc2_lower_global_irq(s, {"GINNAKEFF"}) ELSE s
        s2 == IF "CGOUTNAK" \in val THEN dwc2_lower_global_irq(s1, {"GOUTNAKEFF"}) ELSE s1
        s3 == IF "SGNPINNAK" \in val THEN dwc2_raise_global_irq(s2, {"GINNAKEFF"}) ELSE s2
        s4 == IF "SGOUTNAK" \in val THEN dwc2_raise_global_irq(s3, {"GOUTNAKEFF"}) ELSE s3
        on == "SFTDISCON" \in old /\ "SFTDISCON" \notin val
        off == "SFTDISCON" \notin old /\ "SFTDISCON" \in val
        s5 == IF on
              THEN dwc2_usb_device_handle_attach([s4 EXCEPT !.udev_attached = TRUE])
              ELSE IF off /\ s4.udev_attached
              THEN dwc2_usb_device_handle_detach([s4 EXCEPT !.udev_attached = FALSE])
              ELSE s4
        s6 == dwc2_update_irq(UpdateEpIrqFrom([s5 EXCEPT !.dctl = DctlStored(old, val)], 0))
    IN  IF off THEN s6 ELSE [s6 EXCEPT !.dev_bh_sched = TRUE])

\* the registers of the device bank whose written value dwc2_dreg_write
\* replaces by the old one
DregReadOnly == {"DAINT", "DSTS", "DTKNQR1", "DTKNQR2", "DTKNQR3", "DTKNQR4"}

\* dwc2_dreg_write of a read-only register or of an offset outside DCFG ..
\* DTKNQR4 ("bad"): val = old is stored, or nothing is; no flag is set
dreg_write_readonly(s, reg, val) ==
    [s EXCEPT !.ev = [NoEv EXCEPT !.op = "wr_dreg", !.status = reg, !.actual = val]]

\* dwc2_dreg_write, case DCFG
dreg_write_DCFG(s, val) == [s EXCEPT !.dcfg = val]

\* dwc2_diepreg_write and dwc2_doepreg_write, the registers stored as written
diepreg_write_DIEPTSIZ(s, ep, val) == [s EXCEPT !.dieptsiz[ep] = val]
diepreg_write_DIEPDMA(s, ep, val) == [s EXCEPT !.diepdma[ep] = val]
doepreg_write_DOEPTSIZ(s, ep, val) == [s EXCEPT !.doeptsiz[ep] = val]
doepreg_write_DOEPDMA(s, ep, val) == [s EXCEPT !.doepdma[ep] = val]

\* dwc2_diepreg_write, case DIEPCTL, with a value for the MPS field; on
\* endpoint 0 the field goes to DOEPCTL(0) too (lines 1792-1793)
diepreg_write_DIEPCTL_mps(s, ep, val, mps) ==
    diepreg_write_DIEPCTL([s EXCEPT !.diepmps[ep] = mps,
                                    !.doepmps[ep] = IF ep = 0 THEN mps ELSE @],
                          ep, val)

\* dwc2_doepreg_write, case DOEPCTL, with a value for the MPS field; on
\* endpoint 0 the field is kept (lines 1888-1889)
doepreg_write_DOEPCTL_mps(s, ep, val, mps) ==
    doepreg_write_DOEPCTL([s EXCEPT !.doepmps[ep] = IF ep = 0 THEN @ ELSE mps],
                          ep, val)

\* a pass that leaves a packet refused with NAK on its queue
AsyncNakStays(status) == status

\* if (p->status == USB_RET_NAK) p->status = USB_RET_IOERROR;  (lines 1579-1581)
AsyncNakIsError(status) == IF status = "NAK" THEN "IOERROR" ELSE status

\* dwc2_device_process_async for the endpoint of queue q: the packet at the
\* head of the queue, if it is in state USB_PACKET_ASYNC, is processed
\* again and completed unless its status is USB_RET_ASYNC again
dwc2_device_process_async(st, q, trap) ==
    Eval(st, LAMBDA s :
    IF s.ep_queue[q] = <<>>
    THEN s
    ELSE LET p == Head(s.ep_queue[q])
         IN  IF p.state # "ASYNC"
             THEN s
             ELSE Eval(dwc2_device_process_packet(s, q[1], p.pid, p.pktsize,
                                                  p.set_address, trap),
                       LAMBDA s1 :
                       IF AsyncNakIsError(s1.tok.status) = "ASYNC" \/ s1.aborted
                       THEN s1
                       ELSE [s1 EXCEPT !.ep_queue[q] = Tail(@),
                                       !.completed = @ \cup
                                           {[queue |-> q, pid |-> p.pid,
                                             status |-> AsyncNakIsError(s1.tok.status),
                                             actual |-> s1.tok.actual]}]))

\* for (i = 1; i < DWC2_NB_EP; i++): the OUT and the IN endpoint i, from i on
RECURSIVE ProcessAsyncFrom(_, _, _)
ProcessAsyncFrom(st, i, trap) ==
    Eval(st, LAMBDA s :
    IF i \notin Eps THEN s
    ELSE ProcessAsyncFrom(
             dwc2_device_process_async(
                 dwc2_device_process_async(s, <<i, "OUT">>, trap), <<i, "IN">>, trap),
             i + 1, trap))

\* dwc2_device_work_bh; while no packet is queued on any endpoint of the
\* device every dwc2_device_process_async returns at once
dwc2_device_work_bh(st, trap) ==
    Eval(st, LAMBDA s :
    IF \A q \in EpQueues : s.ep_queue[q] = <<>>
    THEN s
    ELSE [ProcessAsyncFrom(dwc2_device_process_async(s, <<0, "CTL">>, trap), 1, trap)
              EXCEPT !.ev.op = "dev_bh"])

(***************************************************************************)
(* Reset.                                                                  *)
(***************************************************************************)
ZeroHcchar == [chena |-> FALSE, chdis |-> FALSE, eptype |-> 0, epdir |-> 0,
               mps |-> 0, devaddr |-> 0]
ZeroHctsiz == [pid |-> "DATA0", pktcnt |-> 0, xfersize |-> 0]
ZeroPacket == [async |-> "NONE", needs_service |-> FALSE, small |-> FALSE,
               devadr |-> 0, len |-> 0]
ZeroDxeptsiz == [pktcnt |-> 0, xfersize |-> 0]
\* the MPS fields after the memset: D0EPCTL_MPS_64 on endpoint 0, 0 elsewhere
ResetDxepmps == [e \in Eps |-> IF e = 0 THEN 64 ELSE 0]
\* diepreg / doepreg after the memset: only USBACTEP of endpoint 0 is set
ResetDxepctl == [e \in Eps |-> IF e = 0 THEN {"USBACTEP"} ELSE {}]

dwc2_reset_enter(st) ==
    Eval(st, LAMBDA s :
    LET s1 == [s EXCEPT !.timer_armed = FALSE, !.bh_sched = FALSE]
        s2 == dwc2_bus_stop(IF s1.dev_attached THEN dwc2_detach(s1) ELSE s1)
    IN  [s2 EXCEPT !.gotgctl = {},
                   !.grstctl = {"AHBIDLE"},
                   !.dctl = @ \cap {"SFTDISCON"},
                   !.dsts = 0,
                   !.frame_number = 0,
                   !.sof_time = 0,
                   !.gahbcfg = {},
                   !.gintsts = {"PTXFEMP", "NPTXFEMP"},
                   !.gintmsk = {},
                   !.haint = {},
                   !.haintmsk = {},
                   !.hprt0 = {},
                   !.hcchar = [c \in Chans |-> ZeroHcchar],
                   !.hcint = [c \in Chans |-> {}],
                   !.hcintmsk = [c \in Chans |-> {}],
                   !.hctsiz = [c \in Chans |-> ZeroHctsiz],
                   !.hcdma = [c \in Chans |-> 0],
                   !.daint = {},
                   !.daintmsk = {},
                   !.dcfg = {},
                   !.dieptsiz = [e \in Eps |-> ZeroDxeptsiz],
                   !.doeptsiz = [e \in Eps |-> ZeroDxeptsiz],
                   !.diepdma = [e \in Eps |-> 0],
                   !.doepdma = [e \in Eps |-> 0],
                   !.diepmps = ResetDxepmps,
                   !.doepmps = ResetDxepmps,
                   !.diepmsk = {},
                   !.doepmsk = {},
                   !.diepctl = ResetDxepctl,
                   !.doepctl = ResetDxepctl,
                   !.diepint = [e \in Eps |-> {}],
                   !.doepint = [e \in Eps |-> {}],
                   !.next_chan = 0,
                   !.working = FALSE,
                   !.packet = [c \in Chans |-> [@[c] EXCEPT !.needs_service = FALSE]]])

\* a reset that leaves the interrupt line as it is
dwc2_reset_hold_noirq(s) == s

dwc2_reset_hold(s) == dwc2_update_irq(s)

dwc2_reset_exit(st) ==
    Eval(st, LAMBDA s :
    LET s1 == [s EXCEPT !.hprt0 = {"PWR"}]
    IN  IF s1.dev_attached
        THEN [dwc2_attach(s1) EXCEPT !.dev_addr = 0]
        ELSE s1)

\* qdev_reset_all_fn(s): the three phases
dwc2_reset(s) == dwc2_reset_exit(dwc2_reset_hold(dwc2_reset_enter(s)))

\* the flush and reset flags of GRSTCTL that clear themselves
GRSTCTL_SELFCLEARING ==
    {"TXFFLSH", "RXFFLSH", "IN_TKNQ_FLSH", "FRMCNTRRST", "HSFTRST", "CSFTRST"}

\* dwc2_glbreg_read, case GRSTCTL, if it returned the value without storing it
glbreg_read_GRSTCTL_nostore(st) ==
    Eval(st, LAMBDA s :
    LET val == s.grstctl \ GRSTCTL_SELFCLEARING
    IN  [s EXCEPT !.ev = [NoEv EXCEPT !.op = "rd_grstctl", !.intr = val,
                                      !.was = s.grstctl \cap GRSTCTL_SELFCLEARING # {}]])

\* dwc2_glbreg_read, case GRSTCTL: the value returned is left in the event
\* (intr), with whether a self-clearing flag was stored (was)
glbreg_read_GRSTCTL(st) ==
    Eval(st, LAMBDA s :
    LET val == s.grstctl \ GRSTCTL_SELFCLEARING
    IN  [s EXCEPT !.grstctl = val,
                  !.ev = [NoEv EXCEPT !.op = "rd_grstctl", !.intr = val,
                                      !.was = s.grstctl \cap GRSTCTL_SELFCLEARING # {}]])

\* dwc2_glbreg_write, case GRSTCTL: the value written is left in the event
glbreg_write_GRSTCTL(st, wval) ==
    Eval(st, LAMBDA s :
    LET old == s.grstctl
        v1 == (wval \cup {"AHBIDLE"}) \ {"DMAREQ"}
        s1 == IF "CSFTRST" \notin old /\ "CSFTRST" \in v1
              THEN dwc2_reset(s)
              ELSE s
        v2 == v1 \cup (old \cap GRSTCTL_SELFCLEARING)
    IN  [s1 EXCEPT !.grstctl = v2,
                   !.ev = [NoEv EXCEPT !.op = "wr_grstctl", !.intr = wval]])

(***************************************************************************)
(* Initial state: after realize and the first reset, nothing attached.     *)
(***************************************************************************)
Init ==
    /\ gintsts = {"PTXFEMP", "NPTXFEMP"}
    /\ gintmsk = {}
    /\ gahbcfg = {}
    /\ gotgctl = {}
    /\ oldlevel = 0
    /\ irq = 0
    /\ haint = {}
    /\ haintmsk = {}
    /\ hprt0 = {"PWR"}
    /\ hcchar = [c \in Chans |-> ZeroHcchar]
    /\ hcint = [c \in Chans |-> {}]
    /\ hcintmsk = [c \in Chans |-> {}]
    /\ hctsiz = [c \in Chans |-> ZeroHctsiz]
    /\ hcdma = [c \in Chans |-> 0]
    /\ packet = [c \in Chans |-> ZeroPacket]
    /\ held = [c \in Chans |-> 0]
    /\ working = FALSE
    /\ bh_chan = -1
    /\ next_chan = 0
    /\ bh_sched = FALSE
    /\ timer_armed = FALSE
    /\ eof_armed = FALSE
    /\ frame_number = 0
    /\ now = 0
    /\ sof_time = 0
    /\ usb_frame_time = NANOSECONDS_PER_SECOND \div 1000
    /\ usb_bit_time = NANOSECONDS_PER_SECOND \div USB_HZ_FS
    /\ hfnum_rd = NoRead
    /\ dev_attached = FALSE
    /\ dev_addr = 0
    /\ dev_speed = "high"
    /\ dev_ready = FALSE
    /\ diepctl = ResetDxepctl
    /\ doepctl = ResetDxepctl
    /\ diepint = [e \in Eps |-> {}]
    /\ doepint = [e \in Eps |-> {}]
    /\ diepmsk = {}
    /\ doepmsk = {}
    /\ daint = {}
    /\ daintmsk = {}
    /\ dcfg = {}
    /\ dieptsiz = [e \in Eps |-> ZeroDxeptsiz]
    /\ doeptsiz = [e \in Eps |-> ZeroDxeptsiz]
    /\ diepdma = [e \in Eps |-> 0]
    /\ doepdma = [e \in Eps |-> 0]
    /\ diepmps = ResetDxepmps
    /\ doepmps = ResetDxepmps
    /\ desc_mem = [i \in DescSlotIds |-> NoDesc]
    /\ tok = NoTok
    /\ dev_bh_sched = FALSE
    /\ dsts = 0
    /\ dctl = {}
    /\ udev_attached = FALSE
    /\ irq_before = -1
    /\ grstctl = {"AHBIDLE"}
    /\ hreg0_rsvd = [i \in Hreg0Reserved |-> 0]
    /\ dma_ok = TRUE
    /\ ep_queue = [q \in EpQueues |-> <<>>]
    /\ completed = {}
    /\ aborted = FALSE
    /\ ev = NoEv

(***************************************************************************)
(* Entry points.  Each takes its inputs as parameters; a specification     *)
(* chooses the sets the inputs are drawn from.                             *)
(***************************************************************************)
\* the model stops issuing once the device holds MaxHeld packets of a channel
HeldBounded(s) == \A c \in Chans : s.held[c] <= MaxHeld

\* a step to state s, computed once
Step(s) == ~aborted /\ \E n \in {s} : HeldBounded(n) /\ Commit(n)

WrGAHBCFG(v) == Step(glbreg_write_GAHBCFG(S, v))
WrGINTSTS(v) == Step(glbreg_write_GINTSTS(S, v))
WrGINTMSK(v) == Step(glbreg_write_GINTMSK(S, v))
WrGOTGCTL(v) == Step(glbreg_write_GOTGCTL(S, v))
WrGRSTCTL(v) == Step(glbreg_write_GRSTCTL(S, v))
RdGRSTCTL == Step(glbreg_read_GRSTCTL(S))
WrHAINTMSK(v) == Step(hreg0_write_HAINTMSK(S, v))
WrHPRT0(v) == Step(hreg0_write_HPRT0(S, v))
WrHCCHAR(c, v, resp) == Step(hreg1_write_HCCHAR(S, c, v, resp))
WrHCINT(c, v) == Step(hreg1_write_HCINT(S, c, v))
WrHCINTMSK(c, v) == Step(hreg1_write_HCINTMSK(S, c, v))
WrHCTSIZ(c, v) == Step(hreg1_write_HCTSIZ(S, c, v))
WrHCDMA(c, v) == Step(hreg1_write_HCDMA(S, c, v))
WrDIEPMSK(v) == Step(dreg_write_DIEPMSK(S, v))
WrDOEPMSK(v) == Step(dreg_write_DOEPMSK(S, v))
WrDAINTMSK(v) == Step(dreg_write_DAINTMSK(S, v))
WrDIEPCTL(e, v) == Step(diepreg_write_DIEPCTL(S, e, v))
WrDIEPINT(e, v) == Step(diepreg_write_DIEPINT(S, e, v))
WrDOEPCTL(e, v) == Step(doepreg_write_DOEPCTL(S, e, v))
WrDOEPINT(e, v) == Step(doepreg_write_DOEPINT(S, e, v))

\* usb_attach(&s->uport) for a device plugged into the root port
PortAttach(speed, addr) ==
    /\ ~dev_attached
    /\ Step(dwc2_attach([S EXCEPT !.dev_attached = TRUE, !.dev_speed = speed,
                                  !.dev_addr = addr, !.dev_ready = FALSE]))

\* usb_detach(&s->uport) when the device is unplugged
PortDetach ==
    /\ dev_attached
    /\ Step([dwc2_detach(S) EXCEPT !.dev_attached = FALSE])

Reset == Step(dwc2_reset(S))

\* the guest memory of the channel buffers is unmapped or mapped again
DmaRemap == Step([S EXCEPT !.dma_ok = ~@])

\* the attached device gets the data of its endpoints ready
DeviceReady ==
    /\ dev_attached /\ ~dev_ready
    /\ Step([S EXCEPT !.dev_ready = TRUE])

\* the attached device takes the address of a SET_ADDRESS request
SetAddress(addr) ==
    /\ dev_attached /\ dev_addr # addr
    /\ Step([S EXCEPT !.dev_addr = addr])
\* the attached device completes a packet it holds
AsyncComplete(c, resp) ==
    /\ held[c] > 0
    /\ Step(dwc2_async_packet_complete(S, c, resp))

\* the main loop runs the scheduled bottom half
WorkBh(resp) ==
    /\ bh_sched
    /\ Step(dwc2_work_bh([S EXCEPT !.bh_sched = FALSE], resp))

\* the main loop runs the scheduled bottom half, up to the device call
WorkBhEnter ==
    /\ bh_sched
    /\ bh_chan = -1
    /\ Step(dwc2_work_bh_enter([S EXCEPT !.bh_sched = FALSE]))

\* the device call of the drain returns
WorkBhLeave(resp) ==
    /\ bh_chan # -1
    /\ Step(dwc2_work_bh_leave(S, resp))

\* the attached device wakes the port
Wakeup ==
    /\ dev_attached
    /\ Step(dwc2_wakeup(S))

WrDCFG(v) == Step(dreg_write_DCFG(S, v))
WrDCTL(v) == Step(dreg_write_DCTL(S, v))
WrDIEPTSIZ(e, v) == Step(diepreg_write_DIEPTSIZ(S, e, v))
WrDIEPDMA(e, v) == Step(diepreg_write_DIEPDMA(S, e, v))
WrDOEPTSIZ(e, v) == Step(doepreg_write_DOEPTSIZ(S, e, v))
WrDOEPDMA(e, v) == Step(doepreg_write_DOEPDMA(S, e, v))
WrDIEPCTLmps(e, v, mps) == Step(diepreg_write_DIEPCTL_mps(S, e, v, mps))
WrDOEPCTLmps(e, v, mps) == Step(doepreg_write_DOEPCTL_mps(S, e, v, mps))

\* the guest writes a descriptor into its memory
WrDesc(slot, d) == Step([S EXCEPT !.desc_mem[slot] = d])

\* the host sends a token to the device: dwc2_usb_device_handle_packet; a
\* packet that stays queued (USB_RET_ASYNC) is cancelled by the host
DeviceToken(ep, pid, pktsize, set_address, trap) ==
    Step(dwc2_device_process_packet(S, ep, pid, pktsize, set_address, trap))

\* a SETUP token that carries the request req
SetupToken(ep, pktsize, req, trap) ==
    Step([dwc2_device_process_packet(S, ep, "SETUP", pktsize, IsSetAddress(req), trap)
              EXCEPT !.tok.req = req])

\* the main loop runs the scheduled device bottom half
DeviceWorkBh ==
    /\ dev_bh_sched
    /\ \E trap \in BOOLEAN :
           Step(dwc2_device_work_bh([S EXCEPT !.dev_bh_sched = FALSE], trap))

\* the host sends a token to an endpoint that has no packet queued
\* (usb_handle_packet): dwc2_usb_device_handle_packet processes it, and a
\* packet left with USB_RET_ASYNC goes to the queue of the endpoint in state
\* USB_PACKET_ASYNC
DeviceTokenQueued(ep, pid, pktsize, set_address, trap) ==
    LET q == EpQueue(ep, pid)
    IN  /\ ep_queue[q] = <<>>
        /\ Step(Eval(dwc2_device_process_packet(S, ep, pid, pktsize, set_address, trap),
                     LAMBDA s1 :
                     IF s1.tok.status = "ASYNC"
                     THEN [s1 EXCEPT !.ep_queue[q] =
                               <<[pid |-> pid, pktsize |-> pktsize,
                                  set_address |-> set_address, state |-> "ASYNC"]>>]
                     ELSE s1))

\* the eof timer fires, late after its deadline: dwc2_frame_boundary
FrameBoundary(late) ==
    LET at == EofDeadline(S) + late
    IN  /\ eof_armed
        /\ at >= now
        /\ at <= MaxFrame * usb_frame_time
        /\ Step(dwc2_frame_boundary([S EXCEPT !.now = at]))

\* the virtual clock advances to offset ns after the start of frame, short
\* of the deadline of an armed eof timer
ClockAdvance(offset) ==
    LET at == sof_time + offset
    IN  /\ at > now
        /\ at <= MaxFrame * usb_frame_time
        /\ eof_armed => at < EofDeadline(S)
        /\ Step([S EXCEPT !.now = at])

\* the guest reads HFNUM
RdHFNUM == Step(dwc2_hreg0_read_HFNUM(S))

\* dwc2_work_timer
WorkTimer ==
    /\ timer_armed
    /\ Step([S EXCEPT !.timer_armed = FALSE, !.bh_sched = TRUE])

(***************************************************************************)
(* Spec: the host channel engine.  The guest programs, enables and         *)
(* disables channels and resets the port; the device answers, completes    *)
(* and is plugged and unplugged; the bottom half and its timer run.        *)
(***************************************************************************)
\* an answer of the attached device: a status and how many bytes came with it
Resp(st, k) == [status |-> st, kind |-> k]

NoResp == Resp("NODEV", "zero")

\* what the device answers to usb_handle_packet
SendResps ==
    {Resp("SUCCESS", "full"), Resp("NAK", "zero"), Resp("ASYNC", "zero")}

\* what the device leaves in a packet it completes later
CompleteResps ==
    {Resp("SUCCESS", "full"), Resp("NAK", "zero"), Resp("REMOVE_FROM_QUEUE", "zero")}

\* the channel the guest drives
SpecChans == {0}

HcChar(e, d, ty, adr) ==
    [chena |-> e, chdis |-> d, eptype |-> ty, epdir |-> 1, mps |-> 2, devaddr |-> adr]

HcCharVals ==
    {HcChar(e, d, ty, 0) :
        e \in BOOLEAN, d \in BOOLEAN,
        ty \in {USB_ENDPOINT_XFER_CONTROL, USB_ENDPOINT_XFER_BULK,
                USB_ENDPOINT_XFER_INT}}

HcTsizVals ==
    {[pid |-> "DATA0", pktcnt |-> 1, xfersize |-> 2],
     [pid |-> "DATA0", pktcnt |-> 2, xfersize |-> 4]}

\* whether a HCCHAR write of v reaches the attached device
WriteIssues(s, c, v) ==
    /\ HccharStored(s.hcchar[c], v).enflg
    /\ dwc2_find_device(s, v.devaddr)

\* the guest writes HCCHAR(c); resps is what the device may answer if asked
GuestHccharOf(cs, vals, resps) ==
    \E c \in cs, v \in vals :
        IF WriteIssues(S, c, v)
        THEN \E r \in resps : WrHCCHAR(c, v, r)
        ELSE WrHCCHAR(c, v, NoResp)

\* the bottom half runs; resps is what the device may answer if asked
DrainOf(resps) ==
    IF ServicedChan(S) # -1 /\ dwc2_find_device(S, packet[ServicedChan(S)].devadr)
    THEN \E r \in resps : WorkBh(r)
    ELSE WorkBh(NoResp)

GuestHcchar == GuestHccharOf(SpecChans, HcCharVals, SendResps)

GuestHctsiz == \E c \in SpecChans, v \in HcTsizVals : WrHCTSIZ(c, v)

GuestHprt0 == \E v \in {{"PWR"}, {"PWR", "RST"}} : WrHPRT0(v)

Plug == PortAttach("high", 0)

DeviceCompletes == \E c \in SpecChans, r \in CompleteResps : AsyncComplete(c, r)

Drain == DrainOf(SendResps)

Next ==
    \/ GuestHcchar
    \/ GuestHctsiz
    \/ GuestHprt0
    \/ Plug
    \/ DeviceCompletes
    \/ Drain
    \/ WorkTimer

Spec == Init /\ [][Next]_vars

(***************************************************************************)
(* ErrSpec: the ways a transfer fails.  The guest enables a bulk channel   *)
(* towards address 0 or 5; the device, at address 0 once the port is       *)
(* reset, answers at once.                                                 *)
(***************************************************************************)
ErrResps ==
    {Resp("SUCCESS", "full"), Resp("SUCCESS", "over"), Resp("NAK", "zero"),
     Resp("STALL", "zero"), Resp("BABBLE", "zero"), Resp("IOERROR", "zero")}

ErrHcCharVals ==
    {HcChar(e, d, USB_ENDPOINT_XFER_BULK, adr) :
        e \in BOOLEAN, d \in BOOLEAN, adr \in {0, 5}}

ErrHcchar == GuestHccharOf(SpecChans, ErrHcCharVals, ErrResps)

ErrHcint == \E c \in SpecChans : WrHCINT(c, HCINT_BITS)

ErrDrain == DrainOf(ErrResps)

ErrNext ==
    \/ ErrHcchar
    \/ ErrHcint
    \/ GuestHctsiz
    \/ GuestHprt0
    \/ Plug
    \/ ErrDrain
    \/ WorkTimer

ErrSpec == Init /\ [][ErrNext]_vars

(***************************************************************************)
(* IrqSpec: the interrupt line.  The guest writes GAHBCFG, GINTMSK and     *)
(* GINTSTS, resets the port and the controller; a device is plugged and    *)
(* unplugged; frames go by; channel 0 halts when the guest disables it.    *)
(***************************************************************************)
IrqGahbcfg == \E v \in {{}, {"GLBL_INTR_EN"}} : WrGAHBCFG(v)

IrqGintmsk == \E v \in {{}, {"SOF"}, {"PRTINT", "HCHINT"}} : WrGINTMSK(v)

IrqGintsts == \E v \in {{"SOF"}, {"DISCONNINT", "PRTINT", "HCHINT"}} : WrGINTSTS(v)

IrqHaintmsk == \E v \in {{}, {0}} : WrHAINTMSK(v)

IrqHcintmsk == \E v \in {{}, {"CHHLTD"}} : WrHCINTMSK(0, v)

IrqHcint == WrHCINT(0, HCINT_BITS)

IrqHcchar ==
    WrHCCHAR(0, HcChar(FALSE, TRUE, USB_ENDPOINT_XFER_BULK, 0), NoResp)

IrqHprt0 ==
    \E v \in {{"PWR"}, {"PWR", "RST"}, {"PWR", "CONNDET", "ENACHG"}} : WrHPRT0(v)

Unplug == PortDetach

Frame == FrameBoundary(0)

IrqNext ==
    \/ IrqGahbcfg
    \/ IrqGintmsk
    \/ IrqGintsts
    \/ IrqHaintmsk
    \/ IrqHcintmsk
    \/ IrqHcint
    \/ IrqHcchar
    \/ IrqHprt0
    \/ Plug
    \/ Unplug
    \/ Frame
    \/ Reset

IrqSpec == Init /\ [][IrqNext]_vars

(***************************************************************************)
(* HostIrqSpec: the host channel interrupts.  The guest writes HCINT,      *)
(* HCINTMSK and HAINTMSK and enables and disables two bulk channels; the   *)
(* device answers at once or completes later.                              *)
(***************************************************************************)
HostResps == {Resp("SUCCESS", "full"), Resp("ASYNC", "zero")}

HostHcCharVals ==
    {HcChar(TRUE, FALSE, USB_ENDPOINT_XFER_BULK, 0),
     HcChar(FALSE, TRUE, USB_ENDPOINT_XFER_BULK, 0)}

HostHcchar == GuestHccharOf(Chans, HostHcCharVals, HostResps)

HostHcint == \E c \in Chans : WrHCINT(c, HCINT_BITS)

HostHcintmsk == \E c \in Chans, v \in {{}, {"CHHLTD"}} : WrHCINTMSK(c, v)

HostHaintmsk == \E v \in {{}, Chans} : WrHAINTMSK(v)

HostCompletes == \E c \in Chans : AsyncComplete(c, Resp("SUCCESS", "full"))

HostIrqNext ==
    \/ HostHcchar
    \/ HostHcint
    \/ HostHcintmsk
    \/ HostHaintmsk
    \/ HostCompletes
    \/ GuestHprt0
    \/ Plug

HostIrqSpec == Init /\ [][HostIrqNext]_vars

(***************************************************************************)
(* LiveSpec: NAK and retry.  The guest brings the port up and starts       *)
(* control and bulk transfers on idle channels, and does nothing else.     *)
(* The device NAKs until its data is ready and answers SUCCESS with the    *)
(* whole packet from then on.  The main loop runs a scheduled bottom half  *)
(* and an expired timer.                                                   *)
(***************************************************************************)
Idle(c) ==
    /\ ~hcchar[c].chena
    /\ ~packet[c].needs_service
    /\ packet[c].async # "INFLIGHT"

\* what the device answers in LiveSpec
LiveResp == IF dev_ready THEN Resp("SUCCESS", "full") ELSE Resp("NAK", "zero")

\* channel c carries control transfers if c is even, bulk transfers if odd
LiveType(c) ==
    IF c % 2 = 0 THEN USB_ENDPOINT_XFER_CONTROL ELSE USB_ENDPOINT_XFER_BULK

LiveEnable ==
    \E c \in Chans :
        /\ Idle(c)
        /\ WrHCCHAR(c, HcChar(TRUE, FALSE, LiveType(c), 0), LiveResp)

LiveHctsiz ==
    \E c \in Chans :
        /\ Idle(c)
        /\ WrHCTSIZ(c, [pid |-> "DATA0", pktcnt |-> 2, xfersize |-> 4])

LiveHprt0 == "ENA" \notin hprt0 /\ GuestHprt0

LiveDrain == WorkBh(LiveResp)

LiveNext ==
    \/ LiveEnable
    \/ LiveHctsiz
    \/ LiveHprt0
    \/ Plug
    \/ DeviceReady
    \/ LiveDrain
    \/ WorkTimer

LiveSpec ==
    Init /\ [][LiveNext]_vars /\ WF_vars(LiveDrain) /\ WF_vars(WorkTimer)

(***************************************************************************)
(* RegSpec: the write-1-to-clear registers.  The guest writes GINTSTS,     *)
(* HCINT, HPRT0 and the device endpoint registers, and disables channel 0; *)
(* a device is plugged and unplugged.                                      *)
(***************************************************************************)
RegGintstsVals == {{"DISCONNINT"}, {"DISCONNINT", "PRTINT"}, {"IEPINT"}}

RegHcintVals == {{"CHHLTD"}, {"NAK"}}

RegHprt0Vals ==
    {{"PWR"}, {"PWR", "RST"}, {"PWR", "CONNDET"}, {"PWR", "ENA", "ENACHG"}}

RegDxepctlVals == {{"SNAK"}, {"CNAK"}, {"EPDIS"}}

RegDxepintVals == {{"INEPNAKEFF"}, {"EPDISBLD"}}

\* the endpoints the guest writes: IN endpoint 0 and the OUT endpoints above 0
RegOutEps == Eps \ {0}

RegGintsts == \E v \in RegGintstsVals : WrGINTSTS(v)

RegHcint == \E v \in RegHcintVals : WrHCINT(0, v)

RegHcchar ==
    WrHCCHAR(0, HcChar(FALSE, TRUE, USB_ENDPOINT_XFER_BULK, 0), NoResp)

RegHprt0 == \E v \in RegHprt0Vals : WrHPRT0(v)

RegDiepctl == \E v \in RegDxepctlVals : WrDIEPCTL(0, v)

RegDoepctl == \E e \in RegOutEps, v \in RegDxepctlVals : WrDOEPCTL(e, v)

RegDiepint == \E v \in RegDxepintVals : WrDIEPINT(0, v)

RegDoepint == \E e \in RegOutEps, v \in RegDxepintVals : WrDOEPINT(e, v)

RegNext ==
    \/ RegGintsts
    \/ RegHcint
    \/ RegHcchar
    \/ RegHprt0
    \/ RegDiepctl
    \/ RegDoepctl
    \/ RegDiepint
    \/ RegDoepint
    \/ Plug
    \/ Unplug

RegSpec == Init /\ [][RegNext]_vars

(***************************************************************************)
(* ScenSpec: one whole packet on channel 0.  The guest sets the interrupt  *)
(* masks, brings the port up, programs channel 0 for one packet of 64      *)
(* bytes to the device at address 5 and enables it; the device answers     *)
(* SUCCESS with all 64 bytes.                                              *)
(***************************************************************************)
ScenAddr == 5
ScenMps == 64

ScenHcchar ==
    [HcChar(TRUE, FALSE, USB_ENDPOINT_XFER_BULK, ScenAddr) EXCEPT !.mps = ScenMps]

ScenHctsiz == [pid |-> "DATA0", pktcnt |-> 1, xfersize |-> ScenMps]

ScenGahbcfg == WrGAHBCFG({"GLBL_INTR_EN"})

ScenGintmsk == WrGINTMSK({"HCHINT"})

ScenHaintmsk == WrHAINTMSK({0})

ScenHcintmsk == \E v \in {{"CHHLTD"}, {"XFERCOMPL"}} : WrHCINTMSK(0, v)

ScenAddress == SetAddress(ScenAddr)

ScenProgram == WrHCTSIZ(0, ScenHctsiz)

ScenEnable == GuestHccharOf({0}, {ScenHcchar}, {Resp("SUCCESS", "full")})

ScenNext ==
    \/ ScenGahbcfg
    \/ ScenGintmsk
    \/ ScenHaintmsk
    \/ ScenHcintmsk
    \/ GuestHprt0
    \/ Plug
    \/ ScenAddress
    \/ ScenProgram
    \/ ScenEnable
    \/ Drain

ScenSpec == Init /\ [][ScenNext]_vars

(***************************************************************************)
(* XferSpec: transfers of several packets on channel 0, bulk and           *)
(* interrupt, in both directions.  The device answers SUCCESS with the     *)
(* whole packet, with a short one or with nothing.                         *)
(***************************************************************************)
XferResps ==
    {Resp("SUCCESS", "full"), Resp("SUCCESS", "short"), Resp("SUCCESS", "zero")}

XferHcCharVals ==
    {[HcChar(TRUE, FALSE, ty, 0) EXCEPT !.epdir = d] :
        ty \in {USB_ENDPOINT_XFER_BULK, USB_ENDPOINT_XFER_INT}, d \in {0, 1}}

XferHcTsizVals ==
    {[pid |-> "DATA0", pktcnt |-> 2, xfersize |-> 4],
     [pid |-> "DATA0", pktcnt |-> 2, xfersize |-> 3],
     [pid |-> "DATA0", pktcnt |-> (SmallXferLimit \div 2) + 1,
                       xfersize |-> SmallXferLimit + 1],
     [pid |-> "DATA0", pktcnt |-> 1, xfersize |-> SmallXferLimit + 1]}

XferHcchar == GuestHccharOf({0}, XferHcCharVals, XferResps)

\* the guest programs the transfer while the channel is idle
XferHctsiz == Idle(0) /\ \E v \in XferHcTsizVals : WrHCTSIZ(0, v)

XferDrain == DrainOf(XferResps)

XferNext ==
    \/ XferHcchar
    \/ XferHctsiz
    \/ XferDrain
    \/ GuestHprt0
    \/ Plug
    \/ WorkTimer

XferSpec == Init /\ [][XferNext]_vars

(***************************************************************************)
(* NakSpec: NAK on channel 0, for every transfer type.  The device answers *)
(* NAK or SUCCESS with the whole packet; the guest also disables the       *)
(* channel and clears HCINT.                                               *)
(***************************************************************************)
NakResps == {Resp("NAK", "zero"), Resp("SUCCESS", "full")}

NakHcCharVals ==
    {HcChar(TRUE, FALSE, ty, 0) :
        ty \in {USB_ENDPOINT_XFER_CONTROL, USB_ENDPOINT_XFER_ISOC,
                USB_ENDPOINT_XFER_BULK, USB_ENDPOINT_XFER_INT}}
        \cup {HcChar(FALSE, TRUE, USB_ENDPOINT_XFER_BULK, 0)}

NakHcchar == GuestHccharOf({0}, NakHcCharVals, NakResps)

NakHctsiz == Idle(0) /\ \E v \in HcTsizVals : WrHCTSIZ(0, v)

NakHcint == WrHCINT(0, HCINT_BITS)

NakDrain == DrainOf(NakResps)

NakNext ==
    \/ NakHcchar
    \/ NakHctsiz
    \/ NakHcint
    \/ NakDrain
    \/ GuestHprt0
    \/ Plug
    \/ WorkTimer

NakSpec == Init /\ [][NakNext]_vars

(***************************************************************************)
(* DrainSpec: the drain in two steps, around the device call.  While the   *)
(* device handles the packet of the drain it completes packets of other    *)
(* channels and wakes the port, which schedule the bottom half, and the    *)
(* nested event loop runs it.  The guest and the timers run between drains.*)
(***************************************************************************)
DrainResps == {Resp("NAK", "zero"), Resp("SUCCESS", "full"), Resp("ASYNC", "zero")}

DrainCompleteResps == {Resp("NAK", "zero"), Resp("SUCCESS", "full")}

DrainHcCharVals == {HcChar(TRUE, FALSE, USB_ENDPOINT_XFER_BULK, 0)}

DrainHcchar == bh_chan = -1 /\ GuestHccharOf(Chans, DrainHcCharVals, DrainResps)

DrainHctsiz == bh_chan = -1 /\ \E c \in Chans : Idle(c) /\ WrHCTSIZ(c, [pid |-> "DATA0", pktcnt |-> 1, xfersize |-> 2])

DrainHprt0 == bh_chan = -1 /\ GuestHprt0

DrainPlug == bh_chan = -1 /\ Plug

DrainTimer == bh_chan = -1 /\ WorkTimer

DrainEnter == WorkBhEnter

DrainNested == bh_chan # -1 /\ \E r \in DrainResps : WorkBh(r)

DrainLeave == \E r \in DrainResps : WorkBhLeave(r)

DrainCompletes == \E c \in Chans \ {bh_chan}, r \in DrainCompleteResps : AsyncComplete(c, r)

DrainNext ==
    \/ DrainHcchar
    \/ DrainHctsiz
    \/ DrainHprt0
    \/ DrainPlug
    \/ DrainTimer
    \/ DrainEnter
    \/ DrainNested
    \/ DrainLeave
    \/ DrainCompletes
    \/ Wakeup

DrainSpec == Init /\ [][DrainNext]_vars

(***************************************************************************)
(* FrameSpec: the frame clock.  A full or high speed device is plugged and *)
(* unplugged, the virtual clock advances to chosen instants of the frame,  *)
(* the eof timer fires on time or late, and the guest reads HFNUM and      *)
(* clears SOF.                                                             *)
(***************************************************************************)
\* instants of a frame, in ns after its start: around the first bit times,
\* around the last bit time counted, and the last ns of the frame
FrameOffsets ==
    {1, usb_bit_time - 1, usb_bit_time, usb_bit_time + 1, 2 * usb_bit_time,
     fi * usb_bit_time - 1, fi * usb_bit_time, usb_frame_time - 1}

\* how late the eof timer runs: on time, a bit time, a whole frame
FrameLates == {0, usb_bit_time, usb_frame_time}

\* the device is plugged at the start of the clock or 1 ns after it
FramePlug == now <= 1 /\ \E speed \in {"full", "high"} : PortAttach(speed, 0)

FrameFires == \E late \in FrameLates : FrameBoundary(late)

FrameClock == \E offset \in FrameOffsets : ClockAdvance(offset)

FrameGintsts == WrGINTSTS({"SOF"})

FrameNext ==
    \/ FramePlug
    \/ Unplug
    \/ FrameFires
    \/ FrameClock
    \/ RdHFNUM
    \/ FrameGintsts

FrameSpec == Init /\ [][FrameNext]_vars


(***************************************************************************)
(* WalkSpec: endpoint 1 of the device with descriptor DMA.  The guest      *)
(* switches descriptor DMA on, writes descriptors into its memory,         *)
(* programs the DMA address and enables the endpoint, which it uses in one *)
(* direction; the host sends IN or OUT tokens.                             *)
(***************************************************************************)
\* DEV_DMA_NBYTES of the descriptors the guest writes
WalkDescBytes == {0, 2}
\* the descriptors the guest hands over, and one it keeps
WalkDescs ==
    {[NoDesc EXCEPT !.sts = "HOST_READY", !.nbytes = n, !.l = l] :
        n \in WalkDescBytes, l \in BOOLEAN} \cup {NoDesc}
\* the sizes of the packets of the host
WalkPktSizes == {0, 1, 3, 4}
\* DIEPDMA / DOEPDMA: the first descriptors
WalkDmaVals == {0, DescSize}
\* the MPS field the guest writes
WalkMpsVals == {0, 2}
WalkDxepctlVals == {{"USBACTEP", "EPENA", "CNAK"}}

\* the guest switches descriptor DMA on, and leaves it on
WalkDcfg == WrDCFG({"DESCDMA_EN"})

WalkDiepctl ==
    /\ doepctl[1] = {}
    /\ \E v \in WalkDxepctlVals : WrDIEPCTLmps(1, v, 2)

WalkDoepctl ==
    /\ diepctl[1] = {}
    /\ \E v \in WalkDxepctlVals, m \in WalkMpsVals : WrDOEPCTLmps(1, v, m)

WalkDiepdma == \E a \in WalkDmaVals : doepctl[1] = {} /\ WrDIEPDMA(1, a)

WalkDoepdma == \E a \in WalkDmaVals : diepctl[1] = {} /\ WrDOEPDMA(1, a)

\* descriptors are written once descriptor DMA is on
WalkDesc ==
    "DESCDMA_EN" \in dcfg /\ \E i \in DescSlotIds, d \in WalkDescs : WrDesc(i, d)

\* the host sends tokens to the configured device
WalkToken ==
    /\ "DESCDMA_EN" \in dcfg
    /\ \E pid \in {"IN", "OUT"}, n \in WalkPktSizes, trap \in BOOLEAN :
           DeviceToken(1, pid, n, FALSE, trap)

WalkNext ==
    \/ WalkDcfg
    \/ WalkDiepctl
    \/ WalkDoepctl
    \/ WalkDiepdma
    \/ WalkDoepdma
    \/ WalkDesc
    \/ WalkToken

WalkSpec == Init /\ [][WalkNext]_vars

(***************************************************************************)
(* SetupSpec: SETUP packets to the device.  The guest programs the         *)
(* transfer size of OUT endpoints 0 and 1, enables them, sets and clears   *)
(* the global OUT NAK and acknowledges interrupts; the host sends SETUP    *)
(* packets of 8 bytes with a request.                                      *)
(***************************************************************************)
\* the requests of the host: SET_ADDRESS, the same code in a class request,
\* and GET_DESCRIPTOR
SetupReqs ==
    {[bmRequestType |-> 0, bRequest |-> USB_REQ_SET_ADDRESS],
     [bmRequestType |-> 33, bRequest |-> USB_REQ_SET_ADDRESS],
     [bmRequestType |-> 128, bRequest |-> 6]}
\* DOEPTSIZ: room for a SETUP packet, or for half of one
SetupDxeptsizVals == {[pktcnt |-> 1, xfersize |-> 8], [pktcnt |-> 1, xfersize |-> 4]}
SetupDxepctlVals == {{"USBACTEP", "EPENA", "CNAK"}, {"USBACTEP", "EPENA", "SNAK"}}
SetupDctlVals == {{"SGOUTNAK"}, {"CGOUTNAK"}}
\* the size of a SETUP packet, and the MPS field of endpoint 1
SetupBytes == 8

SetupDoeptsiz == \E e \in {0, 1}, v \in SetupDxeptsizVals : WrDOEPTSIZ(e, v)

SetupDoepctl ==
    \E e \in {0, 1}, v \in SetupDxepctlVals : WrDOEPCTLmps(e, v, SetupBytes)

SetupDctl == \E v \in SetupDctlVals : WrDCTL(v)

SetupGintsts == WrGINTSTS({"ENUMDONE"})

SetupDoepint == \E e \in {0, 1} : WrDOEPINT(e, {"SETUP", "SETUP_RCVD", "XFERCOMPL"})

SetupPacket ==
    \E e \in {0, 1}, req \in SetupReqs : SetupToken(e, SetupBytes, req, FALSE)

SetupNext ==
    \/ SetupDoeptsiz
    \/ SetupDoepctl
    \/ SetupDctl
    \/ SetupGintsts
    \/ SetupDoepint
    \/ SetupPacket

SetupSpec == Init /\ [][SetupNext]_vars

(***************************************************************************)
(* InSpec: IN tokens to endpoint 1 of the device without descriptor DMA.   *)
(* The guest programs transfer size, packet count and DMA address of the   *)
(* endpoint, enables it, stalls it, sets and clears its NAK and the global *)
(* IN NAK; the host sends IN tokens.                                       *)
(***************************************************************************)
InDxepctlVals ==
    {{"USBACTEP", "EPENA", "CNAK"}, {"USBACTEP", "SNAK"}, {"USBACTEP", "STALL"}, {}}
InDxeptsizVals ==
    {[pktcnt |-> 2, xfersize |-> 3], [pktcnt |-> 0, xfersize |-> 2],
     [pktcnt |-> 1, xfersize |-> 0]}
\* the MPS field of the endpoint
InMpsVals == {0, 2}
InDmaVals == {0, DescSize}
InDctlVals == {{"SGNPINNAK"}, {"CGNPINNAK"}}
\* the room the host leaves in its packets
InPktSizes == {0, 2, 4}
\* the largest packet count the guest programs; tokens go to the endpoint
\* while its count is one the guest may have programmed
MaxPktcnt == 2

InDiepctl == \E v \in InDxepctlVals, m \in InMpsVals : WrDIEPCTLmps(1, v, m)

InDieptsiz == \E v \in InDxeptsizVals : WrDIEPTSIZ(1, v)

InDiepdma == \E a \in InDmaVals : WrDIEPDMA(1, a)

InDctl == \E v \in InDctlVals : WrDCTL(v)

InToken ==
    \E n \in InPktSizes, trap \in BOOLEAN :
        /\ dieptsiz[1].pktcnt <= MaxPktcnt
        /\ DeviceToken(1, "IN", n, FALSE, trap)

InNext ==
    \/ InDiepctl
    \/ InDieptsiz
    \/ InDiepdma
    \/ InDctl
    \/ InToken

InSpec == Init /\ [][InNext]_vars

(***************************************************************************)
(* OutSpec: OUT and SETUP tokens to endpoint 1 of the device without       *)
(* descriptor DMA.  The guest programs transfer size, packet count and DMA *)
(* address of the endpoint, enables it, stalls it, sets and clears its NAK *)
(* and the global OUT NAK; the host sends OUT and SETUP packets.           *)
(***************************************************************************)
OutDctlVals == {{"SGOUTNAK"}, {"CGOUTNAK"}}
\* the bytes of the packets of the host
OutPktSizes == {0, 2, 4}

OutDoepctl == \E v \in InDxepctlVals, m \in InMpsVals : WrDOEPCTLmps(1, v, m)

OutDoeptsiz == \E v \in InDxeptsizVals : WrDOEPTSIZ(1, v)

OutDoepdma == \E a \in InDmaVals : WrDOEPDMA(1, a)

OutDctl == \E v \in OutDctlVals : WrDCTL(v)

OutToken ==
    \E pid \in {"OUT", "SETUP"}, n \in OutPktSizes, trap \in BOOLEAN :
        /\ doeptsiz[1].pktcnt <= MaxPktcnt
        /\ DeviceToken(1, pid, n, FALSE, trap)

OutNext ==
    \/ OutDoepctl
    \/ OutDoeptsiz
    \/ OutDoepdma
    \/ OutDctl
    \/ OutToken

OutSpec == Init /\ [][OutNext]_vars

(***************************************************************************)
(* AggSpec: the endpoint interrupts of the device.  The guest enables and  *)
(* disables IN endpoint 1 and OUT endpoint 0, sets and clears their NAK,   *)
(* acknowledges their interrupts and writes the three masks; the host      *)
(* sends tokens to them; the controller is reset.                          *)
(***************************************************************************)
AggDxepctlVals == {{"USBACTEP", "EPENA", "CNAK"}, {"SNAK"}, {"EPDIS"}}
AggDxepintVals == {{"XFERCOMPL", "INEPNAKEFF", "EPDISBLD", "INTKNTXFEMP"}}
AggDxepmskVals == {{}, {"XFERCOMPL", "EPDISBLD"}}
AggDaintmskVals == {{}, {<<0, TRUE>>, <<1, FALSE>>}}
\* the bytes of the packets of the host, and the MPS field of endpoint 1
AggBytes == 2

AggDiepctl == \E v \in AggDxepctlVals : WrDIEPCTLmps(1, v, AggBytes)

AggDoepctl == \E v \in AggDxepctlVals : WrDOEPCTL(0, v)

AggDiepint == \E v \in AggDxepintVals : WrDIEPINT(1, v)

AggDoepint == \E v \in AggDxepintVals : WrDOEPINT(0, v)

AggDiepmsk == \E v \in AggDxepmskVals : WrDIEPMSK(v)

AggDoepmsk == \E v \in AggDxepmskVals : WrDOEPMSK(v)

AggDaintmsk == \E v \in AggDaintmskVals : WrDAINTMSK(v)

\* a transfer of one packet is programmed on IN endpoint 1
AggDieptsiz == WrDIEPTSIZ(1, [pktcnt |-> 1, xfersize |-> AggBytes])

AggToken ==
    \E t \in {<<1, "IN">>, <<0, "OUT">>, <<0, "SETUP">>} :
        DeviceToken(t[1], t[2], AggBytes, FALSE, FALSE)

AggNext ==
    \/ AggDiepctl
    \/ AggDoepctl
    \/ AggDiepint
    \/ AggDoepint
    \/ AggDiepmsk
    \/ AggDoepmsk
    \/ AggDaintmsk
    \/ AggDieptsiz
    \/ AggToken
    \/ Reset

AggSpec == Init /\ [][AggNext]_vars

(***************************************************************************)
(* LineSpec: the interrupt output line.  The guest writes GAHBCFG, GINTMSK *)
(* and GINTSTS; the controller raises and lowers single global causes, as  *)
(* its handlers do through dwc2_raise_global_irq and                       *)
(* dwc2_lower_global_irq.                                                  *)
(***************************************************************************)
LineCauses == {"SOF", "PRTINT", "USBRST"}

LineRaise ==
    \E b \in LineCauses :
        Step([dwc2_raise_global_irq(S, {b}) EXCEPT
                  !.ev = [NoEv EXCEPT !.op = "raise", !.intr = {b},
                                      !.was = b \in gintsts]])

LineLower ==
    \E b \in LineCauses :
        Step([dwc2_lower_global_irq(S, {b}) EXCEPT
                  !.ev = [NoEv EXCEPT !.op = "lower", !.intr = {b},
                                      !.was = b \in gintsts]])

LineNext ==
    \/ IrqGahbcfg
    \/ IrqGintmsk
    \/ IrqGintsts
    \/ LineRaise
    \/ LineLower

LineSpec == Init /\ [][LineNext]_vars

(***************************************************************************)
(* RoSpec: the registers with read-only bits.  The guest writes GOTGCTL,   *)
(* DCTL, HPRT0 and GINTSTS, read-only bits included; a device is plugged   *)
(* into the host port and unplugged, and the device side is connected and  *)
(* disconnected through DCTL.SFTDISCON, which is what sets the read-only   *)
(* bits.  Each write leaves the register it wrote in the event.            *)
(***************************************************************************)
RoGotgctlVals == {{}, {"SESREQ"}, {"SESREQ", "BSESVLD", "ASESVLD"}}

RoDctlVals == {{}, {"SFTDISCON"}, {"GOUTNAKSTS", "SGNPINNAK"}}

RoHprt0Vals == {{"PWR"}, {"PWR", "RST"}, {"PWR", "CONNSTS", "SPD_B0"}}

RoGintstsVals == {{"PRTINT", "DISCONNINT"}, {"CURMODE_HOST", "CONIDSTSCHNG"}}

RoGotgctl ==
    \E v \in RoGotgctlVals :
        Step([glbreg_write_GOTGCTL(S, v) EXCEPT !.ev.op = "GOTGCTL"])

RoDctl ==
    \E v \in RoDctlVals : Step([dreg_write_DCTL(S, v) EXCEPT !.ev.op = "DCTL"])

RoHprt0 ==
    \E v \in RoHprt0Vals : Step([hreg0_write_HPRT0(S, v) EXCEPT !.ev.op = "HPRT0"])

RoGintsts ==
    \E v \in RoGintstsVals :
        Step([glbreg_write_GINTSTS(S, v) EXCEPT !.ev.op = "GINTSTS"])

RoNext ==
    \/ RoGotgctl
    \/ RoDctl
    \/ RoHprt0
    \/ RoGintsts
    \/ Plug
    \/ Unplug

RoSpec == Init /\ [][RoNext]_vars

(***************************************************************************)
(* RstSpec: the reset control register.  The guest writes GRSTCTL with and *)
(* without flush and reset flags and reads it back; in between it writes   *)
(* the interrupt masks, and a device is plugged in and unplugged, which a  *)
(* core soft reset undoes and redoes.                                      *)
(***************************************************************************)
RstGrstctlVals ==
    {{}, {"TXFFLSH"}, {"RXFFLSH", "DMAREQ"}, {"CSFTRST"}, {"TXFFLSH", "HSFTRST"}}

RstWrite == \E v \in RstGrstctlVals : WrGRSTCTL(v)

RstRead == RdGRSTCTL

RstNext ==
    \/ RstWrite
    \/ RstRead
    \/ IrqGahbcfg
    \/ IrqGintmsk
    \/ Plug
    \/ Unplug

RstSpec == Init /\ [][RstNext]_vars

(***************************************************************************)
(* BankSpec: offsets without a register and read-only registers.  The      *)
(* guest writes and reads reserved words of the host bank and offsets      *)
(* above its last register, and writes HFNUM, HAINT and the read-only      *)
(* registers of the device bank; in between it enables channel 0 and      *)
(* writes the interrupt masks, which sets HAINT; the controller is reset.  *)
(***************************************************************************)
BankWord == 1
BankAbove == HREG0_HPRT0 + 1
BankWriteIdx == {HREG0_HFNUM, HREG0_HAINT, 3, 8, BankAbove}
BankReadIdx == {3, 8, BankAbove}
BankDregs == {"DAINT", "DSTS", "bad"}

BankHreg0Write ==
    \E i \in BankWriteIdx, v \in {0, BankWord} : Step(dwc2_hreg0_write_word(S, i, v))

BankHreg0Read == \E i \in BankReadIdx : Step(dwc2_hreg0_read_word(S, i))

BankDregWrite == \E r \in BankDregs : Step(dreg_write_readonly(S, r, BankWord))

BankNext ==
    \/ BankHreg0Write
    \/ BankHreg0Read
    \/ BankDregWrite
    \/ IrqHcchar
    \/ IrqHcintmsk
    \/ IrqHaintmsk
    \/ IrqGintmsk
    \/ Reset

BankSpec == Init /\ [][BankNext]_vars

(***************************************************************************)
(* BadSpec: channels programmed wrongly.  With a device on the enabled     *)
(* port, the guest programs channel 0 with a transfer size within or above *)
(* the maximum and enables it with a max packet size of 2 or of 0, and     *)
(* disables it; the device answers SUCCESS or NAK; the work drain runs.    *)
(***************************************************************************)
BadResps == {Resp("SUCCESS", "full"), Resp("NAK", "zero")}

BadHcCharVals ==
    {HcChar(FALSE, TRUE, USB_ENDPOINT_XFER_BULK, 0)} \cup
    {[HcChar(TRUE, FALSE, USB_ENDPOINT_XFER_BULK, 0) EXCEPT !.mps = m, !.epdir = d] :
        m \in {0, 2}, d \in {0, 1}}

BadHcTsizVals ==
    {[pid |-> "DATA0", pktcnt |-> 2, xfersize |-> 4],
     [pid |-> "DATA0", pktcnt |-> 1, xfersize |-> DWC2_MAX_XFER_SIZE],
     [pid |-> "DATA0", pktcnt |-> 1, xfersize |-> DWC2_MAX_XFER_SIZE + 1]}

BadHcchar == GuestHccharOf({0}, BadHcCharVals, BadResps)

BadHctsiz == Idle(0) /\ \E v \in BadHcTsizVals : WrHCTSIZ(0, v)

BadHcintmsk == \E v \in {{}, {"CHHLTD"}} : WrHCINTMSK(0, v)

BadDrain == DrainOf(BadResps)

BadNext ==
    \/ BadHcchar
    \/ BadHctsiz
    \/ BadHcintmsk
    \/ BadDrain
    \/ GuestHprt0
    \/ Plug
    \/ WorkTimer

BadSpec == Init /\ [][BadNext]_vars

(***************************************************************************)
(* FaultSpec: DMA faults of host channels.  With a device on the enabled   *)
(* port, the guest programs and enables channel 0 for bulk transfers in    *)
(* both directions while the memory of its buffer is mapped or not; the    *)
(* device answers SUCCESS, NAK or later.                                   *)
(***************************************************************************)
FaultResps == {Resp("SUCCESS", "full"), Resp("NAK", "zero"), Resp("ASYNC", "zero")}

FaultHcCharVals ==
    {HcChar(FALSE, TRUE, USB_ENDPOINT_XFER_BULK, 0)} \cup
    {[HcChar(TRUE, FALSE, USB_ENDPOINT_XFER_BULK, 0) EXCEPT !.epdir = d] : d \in {0, 1}}

FaultHcchar == GuestHccharOf({0}, FaultHcCharVals, FaultResps)

FaultHctsiz == Idle(0) /\ \E v \in HcTsizVals : WrHCTSIZ(0, v)

FaultHcint == WrHCINT(0, HCINT_BITS)

FaultDrain == DrainOf(FaultResps)

FaultCompletes == AsyncComplete(0, Resp("SUCCESS", "full"))

FaultNext ==
    \/ FaultHcchar
    \/ FaultHctsiz
    \/ FaultHcint
    \/ FaultDrain
    \/ FaultCompletes
    \/ DmaRemap
    \/ GuestHprt0
    \/ Plug
    \/ WorkTimer

FaultSpec == Init /\ [][FaultNext]_vars

(***************************************************************************)
(* ResetSpec: resets of the controller.  The guest enables the interrupts, *)
(* brings the port up and enables channel 0, which the device answers with *)
(* NAK, so that the channel waits for a retry; the controller is reset     *)
(* through its reset entry point or by the guest through GRSTCTL.CSFTRST,  *)
(* with or without a device on the port.                                   *)
(***************************************************************************)
ResetEntry == Step([dwc2_reset(S) EXCEPT !.ev = [NoEv EXCEPT !.op = "reset"]])

ResetSoft == WrGRSTCTL({"CSFTRST"})

ResetHcchar ==
    GuestHccharOf({0}, {HcChar(TRUE, FALSE, USB_ENDPOINT_XFER_BULK, 0)},
                  {Resp("NAK", "zero")})

ResetHctsiz == Idle(0) /\ WrHCTSIZ(0, [pid |-> "DATA0", pktcnt |-> 1, xfersize |-> 2])

ResetGintmsk == WrGINTMSK({"PRTINT", "HCHINT"})

ResetGahbcfg == WrGAHBCFG({"GLBL_INTR_EN"})

ResetHcintmsk == WrHCINTMSK(0, {"NAK"})

ResetHaintmsk == WrHAINTMSK({0})

ResetDrain == DrainOf({Resp("NAK", "zero")})

ResetNext ==
    \/ ResetHcchar
    \/ ResetHctsiz
    \/ GuestHprt0
    \/ Plug
    \/ Unplug
    \/ ResetDrain
    \/ WorkTimer
    \/ ResetGahbcfg
    \/ ResetGintmsk
    \/ ResetHcintmsk
    \/ ResetHaintmsk
    \/ ResetEntry
    \/ ResetSoft

ResetSpec == Init /\ [][ResetNext]_vars

(***************************************************************************)
(* RoundSpec: both channels are enabled for bulk IN transfers the device   *)
(* answers with NAK or with data, so that several channels wait for the    *)
(* drain at once; the drain and its timer run.                             *)
(***************************************************************************)
RoundResps == {Resp("NAK", "zero"), Resp("SUCCESS", "full")}

RoundHcchar == GuestHccharOf(Chans, {HcChar(TRUE, FALSE, USB_ENDPOINT_XFER_BULK, 0)}, RoundResps)

RoundHctsiz == \E c \in Chans : Idle(c) /\ WrHCTSIZ(c, [pid |-> "DATA0", pktcnt |-> 1, xfersize |-> 2])

RoundDrain == DrainOf(RoundResps)

RoundNext ==
    \/ RoundHcchar
    \/ RoundHctsiz
    \/ GuestHprt0
    \/ Plug
    \/ RoundDrain
    \/ WorkTimer

RoundSpec == Init /\ [][RoundNext]_vars

(***************************************************************************)
(* PortSpec: the guest writes HPRT0 with the enable bit, the reset bit and *)
(* the change bits, and clears causes in GINTSTS; a device is plugged and  *)
(* unplugged.                                                              *)
(***************************************************************************)
PortHprt0Vals ==
    {{"PWR"}, {"PWR", "RST"}, {"PWR", "ENA"}, {"PWR", "RST", "ENA"},
     {"PWR", "CONNDET"}, {"PWR", "ENACHG"}, {"PWR", "CONNDET", "ENACHG"}}

PortHprt0 ==
    \E v \in PortHprt0Vals : Step([hreg0_write_HPRT0(S, v) EXCEPT !.ev.op = "HPRT0"])

PortGintmsk == \E v \in {{}, {"PRTINT"}} : WrGINTMSK(v)

PortNext ==
    \/ PortHprt0
    \/ RoGintsts
    \/ PortGintmsk
    \/ IrqGahbcfg
    \/ Plug
    \/ Unplug

PortSpec == Init /\ [][PortNext]_vars

(***************************************************************************)
(* ParkSpec: tokens to endpoint 1 of the device that find the endpoint not *)
(* enabled stay on its queue.  The guest programs the transfer sizes,      *)
(* enables the endpoints and sets and clears their NAK; the host sends IN  *)
(* and OUT tokens to an endpoint with an empty queue; the device bottom    *)
(* half runs.                                                              *)
(***************************************************************************)
ParkDxepctlVals ==
    {{"USBACTEP"}, {"USBACTEP", "EPENA", "CNAK"}, {"USBACTEP", "SNAK"}}

ParkDxeptsizVals ==
    {[pktcnt |-> 1, xfersize |-> 0], [pktcnt |-> 1, xfersize |-> 2],
     [pktcnt |-> 2, xfersize |-> 4]}

\* the MPS field of endpoint 1
ParkMpsVals == {2}

\* the sizes of the packets of the host
ParkPktSizes == {2, 4}

ParkDiepctl == \E v \in ParkDxepctlVals, m \in ParkMpsVals : WrDIEPCTLmps(1, v, m)

ParkDoepctl == \E v \in ParkDxepctlVals, m \in ParkMpsVals : WrDOEPCTLmps(1, v, m)

ParkDieptsiz == \E v \in ParkDxeptsizVals : WrDIEPTSIZ(1, v)

ParkDoeptsiz == \E v \in ParkDxeptsizVals : WrDOEPTSIZ(1, v)

ParkToken ==
    \E pid \in {"IN", "OUT"}, n \in ParkPktSizes :
        DeviceTokenQueued(1, pid, n, FALSE, FALSE)

ParkNext ==
    \/ ParkDiepctl
    \/ ParkDoepctl
    \/ ParkDieptsiz
    \/ ParkDoeptsiz
    \/ ParkToken
    \/ DeviceWorkBh

ParkSpec == Init /\ [][ParkNext]_vars

(***************************************************************************)
(* ReadSpec: the guest reads registers of every bank, HFNUM and GRSTCTL    *)
(* among them, while a device is plugged, the frame timer runs, flags are  *)
(* written to GRSTCTL and the interrupt is unmasked.                       *)
(***************************************************************************)
ReadRegs == {"GINTSTS", "GINTMSK", "HPRT0", "HCINT0", "DAINT"}

ReadReg == \E reg \in ReadRegs : Step(dwc2_hsotg_read(S, reg))

ReadHreg0 == \E i \in BankReadIdx : Step(dwc2_hreg0_read_word(S, i))

ReadGrstctlWrite == WrGRSTCTL({"TXFFLSH", "HSFTRST"})

ReadGintmsk == WrGINTMSK({"SOF", "PRTINT"})

ReadGahbcfg == WrGAHBCFG({"GLBL_INTR_EN"})

ReadPlug == now = 0 /\ PortAttach("high", 0)

ReadFires == FrameBoundary(0)

ReadClock == \E offset \in {usb_bit_time, 2 * usb_bit_time} : ClockAdvance(offset)

ReadNext ==
    \/ ReadReg
    \/ ReadHreg0
    \/ RdHFNUM
    \/ RdGRSTCTL
    \/ ReadGrstctlWrite
    \/ ReadGintmsk
    \/ ReadGahbcfg
    \/ ReadPlug
    \/ ReadFires
    \/ ReadClock

ReadSpec == Init /\ [][ReadNext]_vars

(***************************************************************************)
(* Properties of the channel engine.                                       *)
(***************************************************************************)
\* a packet event that went to the device (or came back from it)
Handled(e) == e.status \notin {"none", "NOTFOUND"}

\* C2: when a channel was disabled while its packet was in flight, the
\* completion callback that arrives later changes neither HCCHAR, HCINT,
\* HCTSIZ, HCDMA of the channel, nor its needs_service flag, nor HAINT.
C2_LateCompletionDiscarded ==
    [][\A c \in Chans :
          (/\ ~hcchar[c].chena
           /\ packet[c].async = "INFLIGHT"
           /\ ev'.op = "complete" /\ ev'.chan = c)
          => (/\ hcchar'[c] = hcchar[c]
              /\ hcint'[c] = hcint[c]
              /\ hctsiz'[c] = hctsiz[c]
              /\ hcdma'[c] = hcdma[c]
              /\ packet'[c].needs_service = packet[c].needs_service
              /\ haint' = haint)]_vars

C4_NakKeepsCount ==
    [][\A c \in Chans :
          (/\ ev'.status = "NAK" /\ ev'.chan = c
           /\ hcchar'[c].eptype \in {USB_ENDPOINT_XFER_CONTROL,
                                     USB_ENDPOINT_XFER_BULK})
          => (hctsiz'[c] = hctsiz[c] /\ hcdma'[c] = hcdma[c])]_vars

\* a bulk channel with two packets to go has been NAKed again by the work
\* drain, after an earlier NAK
C4_NakAgain ==
    \E c \in Chans :
        /\ ev.op = "drain" /\ ev.status = "NAK" /\ ev.chan = c
        /\ hcchar[c].eptype = USB_ENDPOINT_XFER_BULK
        /\ hctsiz[c].pktcnt = 2 /\ hctsiz[c].xfersize = 4
        /\ packet[c].needs_service

\* C6: the work drain that runs after the guest has disabled a channel sends
\* no packet of that channel.
C6_NoDispatchAfterDisable ==
    [][~(/\ ev.op = "disable"
         /\ ev'.op = "drain" /\ ev'.chan = ev.chan /\ Handled(ev'))]_vars

\* the HCINT cause bit of a failure
Cause(status) ==
    IF status = "STALL" THEN "STALL"
    ELSE IF status = "BABBLE" THEN "BBLERR"
    ELSE "XACTERR"

\* C7: a packet that comes back SUCCESS with more bytes than were asked for
\* halts the channel with BBLERR and CHHLTD, does not set XFERCOMPL, and
\* leaves HCTSIZ and HCDMA as they were.
C7_OverlongIsBabble ==
    [][(ev'.status = "SUCCESS" /\ ev'.over)
          => LET c == ev'.chan
             IN  /\ {"BBLERR", "CHHLTD"} \subseteq hcint'[c]
                 /\ ("XFERCOMPL" \in hcint'[c] => "XFERCOMPL" \in hcint[c])
                 /\ ~hcchar'[c].chena
                 /\ hctsiz'[c] = hctsiz[c]
                 /\ hcdma'[c] = hcdma[c]]_vars

\* C8: a channel enable that ends in STALL, babble, IO error or no device
\* found leaves the channel disabled with CHHLTD and the cause bit of the
\* status set in HCINT.
C8_FailedEnableHalts ==
    [][(ev'.op = "enable"
        /\ ev'.status \in {"STALL", "BABBLE", "IOERROR", "NOTFOUND"})
          => LET c == ev'.chan
             IN  /\ ~hcchar'[c].chena
                 /\ {"CHHLTD", Cause(ev'.status)} \subseteq hcint'[c]]_vars

(***************************************************************************)
(* Properties of the interrupt tree.                                       *)
(***************************************************************************)
\* C1: the level on the interrupt line is 1 exactly when a GINTSTS bit
\* enabled in GINTMSK is set and GAHBCFG.GLBL_INTR_EN is set.
C1_IrqLineFollowsStatus == irq = IrqLevel(S)

\* C10: HAINT holds the bit of channel n exactly when HCINT(n) & HCINTMSK(n)
\* is not zero, and GINTSTS.HCHINT is set exactly when HAINT & HAINTMSK is
\* not zero.
C10_HostAggregation ==
    /\ \A c \in Chans : (c \in haint) <=> (hcint[c] \cap hcintmsk[c] # {})
    /\ ("HCHINT" \in gintsts) <=> (haint \cap haintmsk # {})

(***************************************************************************)
(* Liveness of the retry.                                                  *)
(***************************************************************************)
Retrying(c) ==
    /\ hcchar[c].chena
    /\ hcchar[c].eptype \in {USB_ENDPOINT_XFER_CONTROL, USB_ENDPOINT_XFER_BULK}
    /\ packet[c].needs_service

\* C5: a control or bulk channel that is enabled and waits for a retry is
\* dispatched again by the work drain, and once the device answers SUCCESS
\* with the whole packet each time, the channel ends up disabled with
\* XFERCOMPL and CHHLTD set.
C5_RetryCompletes ==
    \A c \in Chans :
        /\ Retrying(c) ~> (ev.op = "drain" /\ ev.chan = c /\ Handled(ev))
        /\ (Retrying(c) /\ dev_ready)
              ~> (~hcchar[c].chena /\ {"XFERCOMPL", "CHHLTD"} \subseteq hcint[c])

\* a channel that was NAKed has been completed by the work drain
C5_DrainCompletedNaked ==
    \E c \in Chans :
        /\ ev.op = "drain" /\ ev.chan = c /\ ev.status = "SUCCESS"
        /\ "NAK" \in hcint[c]
        /\ ~hcchar[c].chena /\ "XFERCOMPL" \in hcint[c]
        /\ timer_armed

(***************************************************************************)
(* Properties of the write-1-to-clear registers.                           *)
(***************************************************************************)
\* the write of wval to HPRT0 ends a port reset of an attached device
CompletesPortReset(wval) ==
    "RST" \in hprt0 /\ "RST" \notin wval /\ dev_attached

\* C9: a guest write of v to GINTSTS, HCINT(n), DIEPINT(n) or DOEPINT(n), or
\* to the write-1-to-clear bits of HPRT0, stores exactly the old bits that
\* were written as 0: a bit written as 1 is cleared, a bit written as 0
\* keeps its value, and no bit goes from 0 to 1.
C9_WriteOneToClear ==
    [][ /\ \A v \in RegGintstsVals :
              WrGINTSTS(v) => gintsts' = gintsts \ v
        /\ \A c \in Chans, v \in RegHcintVals :
              WrHCINT(c, v) => hcint'[c] = hcint[c] \ v
        /\ \A e \in Eps, v \in RegDxepintVals :
              /\ WrDIEPINT(e, v) => diepint'[e] = diepint[e] \ v
              /\ WrDOEPINT(e, v) => doepint'[e] = doepint[e] \ v
        /\ \A v \in RegHprt0Vals :
              WrHPRT0(v) =>
                  hprt0' \cap HPRT0_W1C = (hprt0 \cap HPRT0_W1C) \ v ]_vars

\* C9, amended: the same for HCINT(n), DIEPINT(n) and DOEPINT(n); a write to
\* GINTSTS does so for the bits that are not read-only and leaves the
\* read-only bits as they were; a write to HPRT0 does so for its
\* write-1-to-clear bits unless it ends a port reset of an attached device,
\* and then it also sets ENA and ENACHG and clears CONNDET.
C9_WriteOneToClearWritable ==
    [][ /\ \A v \in RegGintstsVals :
              WrGINTSTS(v) =>
                  /\ gintsts' \ GINTSTS_READONLY = (gintsts \ GINTSTS_READONLY) \ v
                  /\ gintsts' \cap GINTSTS_READONLY = gintsts \cap GINTSTS_READONLY
        /\ \A c \in Chans, v \in RegHcintVals :
              WrHCINT(c, v) => hcint'[c] = hcint[c] \ v
        /\ \A e \in Eps, v \in RegDxepintVals :
              /\ WrDIEPINT(e, v) => diepint'[e] = diepint[e] \ v
              /\ WrDOEPINT(e, v) => doepint'[e] = doepint[e] \ v
        /\ \A v \in RegHprt0Vals :
              WrHPRT0(v) =>
                  hprt0' \cap HPRT0_W1C =
                      IF CompletesPortReset(v)
                      THEN (((hprt0 \cap HPRT0_W1C) \ v) \cup {"ENA", "ENACHG"})
                               \ {"CONNDET"}
                      ELSE (hprt0 \cap HPRT0_W1C) \ v ]_vars

\* writes have cleared one bit and kept another in each of the registers:
\* DISCONNINT of GINTSTS is clear again after the unplug and PRTINT still
\* set, ENACHG of HPRT0 is clear and CONNDET still set, CHHLTD of the
\* disabled channel is clear, and INEPNAKEFF of the endpoints that were
\* NAKed and disabled is clear and EPDISBLD still set
C9_ClearedOneKeptOther ==
    /\ ~dev_attached
    /\ "PRTINT" \in gintsts /\ "DISCONNINT" \notin gintsts
    /\ "CONNDET" \in hprt0 /\ "ENACHG" \notin hprt0
    /\ hcchar[0].eptype = USB_ENDPOINT_XFER_BULK /\ hcint[0] = {}
    /\ "NAKSTS" \in diepctl[0]
    /\ diepint[0] = {"EPDISBLD"}
    /\ \E e \in RegOutEps :
           "NAKSTS" \in doepctl[e] /\ doepint[e] = {"EPDISBLD"}

(***************************************************************************)
(* Properties of a transfer.                                               *)
(***************************************************************************)
\* the guest has enabled the whole interrupt path of channel 0
ScenUnmasked ==
    /\ hcintmsk[0] \cap {"CHHLTD", "XFERCOMPL"} # {}
    /\ 0 \in haintmsk
    /\ "HCHINT" \in gintmsk
    /\ "GLBL_INTR_EN" \in gahbcfg

\* channel 0 was enabled as the scenario programs it and the device gave
\* SUCCESS with all 64 bytes
ScenDone ==
    /\ ev.op = "enable" /\ ev.chan = 0 /\ ev.status = "SUCCESS" /\ ~ev.over
    /\ hcchar[0].devaddr = ScenAddr /\ hcchar[0].mps = ScenMps

\* C11: when channel 0, programmed for one 64-byte packet to device 5, is
\* enabled and the device answers SUCCESS with 64 bytes, HCTSIZ packet count
\* and transfer size are 0, HCINT has CHHLTD and XFERCOMPL, HCCHAR enable is
\* clear and - the guest having unmasked the interrupt at every level - the
\* interrupt line is asserted.
C11_WholePacketScenario ==
    [][ (hctsiz[0] = ScenHctsiz /\ ScenDone') =>
            /\ hctsiz'[0].pktcnt = 0 /\ hctsiz'[0].xfersize = 0
            /\ {"CHHLTD", "XFERCOMPL"} \subseteq hcint'[0]
            /\ ~hcchar'[0].chena
            /\ (ScenUnmasked' => irq' = 1) ]_vars

\* a packet event with status SUCCESS and no more bytes than were asked for
Succeeded(e) == Handled(e) /\ e.status = "SUCCESS" /\ ~e.over

CeilDiv(a, m) == (a + m - 1) \div m

Monus(a, b) == IF a > b THEN a - b ELSE 0

\* C12: when a packet of channel c succeeds with actual bytes, not more than
\* asked for, HCTSIZ packet count goes down by ceil(actual / mps) and
\* transfer size by actual, neither below 0, and HCDMA goes up by actual
\* (in the width of the register).
C12_SuccessAccounting ==
    [][ \A c \in Chans :
          (Succeeded(ev') /\ ev'.chan = c) =>
              /\ hctsiz'[c].pktcnt =
                     Monus(hctsiz[c].pktcnt, CeilDiv(ev'.actual, hcchar'[c].mps))
              /\ hctsiz'[c].xfersize = Monus(hctsiz[c].xfersize, ev'.actual)
              /\ hcdma'[c] = (hcdma[c] + ev'.actual) % DmaSize ]_vars

\* a short packet of one byte was taken off a transfer of two packets and
\* three bytes
C12_ShortPacketCounted ==
    /\ Succeeded(ev) /\ ev.chan = 0 /\ ev.actual = 1
    /\ hctsiz[0].pktcnt = 1 /\ hctsiz[0].xfersize = 2
    /\ hcdma[0] = 1

\* channel c has halted with transfer-complete
HaltedComplete(c) ==
    /\ ~hcchar[c].chena
    /\ {"CHHLTD", "XFERCOMPL"} \subseteq hcint[c]
    /\ ~packet[c].needs_service

\* channel c goes on with another packet
GoesOn(c) == hcchar[c].chena /\ packet[c].needs_service

\* the packet of the last event was a short IN packet
ShortIn(c) ==
    /\ ev.actual % hcchar[c].mps # 0
    /\ Token(hcchar[c].eptype, hctsiz[c].pid, hcchar[c].epdir) = "IN"

\* C13: after a packet of channel c succeeds, the channel halts with
\* transfer-complete if the packet count or the transfer size has reached 0
\* or the packet was empty, and in every other case - a short IN packet that
\* leaves both nonzero too - it stays enabled and needs service.
C13_HaltsWhenUsedUp ==
    [][ \A c \in Chans :
          (Succeeded(ev') /\ ev'.chan = c) =>
              IF hctsiz'[c].pktcnt = 0 \/ hctsiz'[c].xfersize = 0 \/ ev'.actual = 0
              THEN HaltedComplete(c)'
              ELSE GoesOn(c)' ]_vars

\* C13, amended: the channel also halts with transfer-complete after a short
\* IN packet (one whose length is not a multiple of the maximum packet
\* size), whatever is left of the packet count and the transfer size.
C13_HaltsWhenUsedUpOrShortIn ==
    [][ \A c \in Chans :
          (Succeeded(ev') /\ ev'.chan = c) =>
              IF \/ hctsiz'[c].pktcnt = 0 \/ hctsiz'[c].xfersize = 0
                 \/ ev'.actual = 0 \/ ShortIn(c)'
              THEN HaltedComplete(c)'
              ELSE GoesOn(c)' ]_vars

\* a short OUT packet has left a packet and two bytes to go, and the channel
\* goes on
C13_ShortOutGoesOn ==
    /\ Succeeded(ev) /\ ev.chan = 0 /\ ev.actual = 1
    /\ hcchar[0].epdir = 0
    /\ hctsiz[0].pktcnt = 1 /\ hctsiz[0].xfersize = 2
    /\ GoesOn(0)

\* the packet of channel c was answered with NAK
Naked(e, c) == Handled(e) /\ e.status = "NAK" /\ e.chan = c

\* C14: a NAK halts the channel iff its type is isochronous or interrupt
\* (enable cleared, NAK and CHHLTD set, no service needed); on a control or
\* bulk channel NAK is set in HCINT, the enable bit stays as the channel
\* had it, CHHLTD is not set by the step and the channel needs service.
C14_NakHaltsPeriodicOnly ==
    [][ \A c \in Chans :
          Naked(ev', c) =>
              IF hcchar'[c].eptype \in {USB_ENDPOINT_XFER_ISOC, USB_ENDPOINT_XFER_INT}
              THEN /\ ~hcchar'[c].chena
                   /\ {"NAK", "CHHLTD"} \subseteq hcint'[c]
                   /\ ~packet'[c].needs_service
              ELSE /\ "NAK" \in hcint'[c]
                   /\ hcchar'[c].chena = (ev'.op = "enable" \/ hcchar[c].chena)
                   /\ ("CHHLTD" \in hcint'[c] => "CHHLTD" \in hcint[c])
                   /\ packet'[c].needs_service ]_vars

\* an isochronous channel was halted by a NAK, with no transfer-complete
C14_IsocNakHalted ==
    /\ Naked(ev, 0)
    /\ hcchar[0].eptype = USB_ENDPOINT_XFER_ISOC
    /\ ~hcchar[0].chena
    /\ hcint[0] = {"NAK", "CHHLTD"}


(***************************************************************************)
(* Properties of a halt.                                                   *)
(***************************************************************************)
\* the step halts channel c: the guest disabled it, or its packet came back
\* with an error, with NAK on a periodic channel, or complete
Halts(e, c, eptype, short_in, pktcnt, xfersize) ==
    /\ e.chan = c
    /\ \/ e.op = "disable"
       \/ /\ Handled(e)
          /\ \/ /\ e.status \notin {"SUCCESS", "NAK", "ASYNC"}
                /\ ~(e.op = "complete" /\ e.status = "REMOVE_FROM_QUEUE")
             \/ /\ e.status = "NAK"
                /\ eptype \in {USB_ENDPOINT_XFER_ISOC, USB_ENDPOINT_XFER_INT}
             \/ e.status = "SUCCESS" /\ e.over
             \/ /\ Succeeded(e)
                /\ (pktcnt = 0 \/ xfersize = 0 \/ e.actual = 0 \/ short_in)

\* C15: every halt leaves CHENA cleared and CHHLTD set, clears the
\* needs_service flag of the channel, and leaves the HAINT bit of the
\* channel equal to (HCINT & HCINTMSK) # 0.
C15_HaltLeavesChannelIdle ==
    [][ \A c \in Chans :
          (/\ ~aborted'
           /\ Halts(ev', c, hcchar'[c].eptype, ShortIn(c)',
                    hctsiz'[c].pktcnt, hctsiz'[c].xfersize))
          => /\ ~hcchar'[c].chena
             /\ "CHHLTD" \in hcint'[c]
             /\ ~packet'[c].needs_service
             /\ (c \in haint') <=> (hcint'[c] \cap hcintmsk'[c] # {}) ]_vars


(***************************************************************************)
(* Properties of an asynchronous packet.                                   *)
(***************************************************************************)
\* the completion callback of channel c handed its packet to dwc2_handle_packet
Completed(e, c) ==
    e.op = "complete" /\ e.chan = c /\ e.status # "REMOVE_FROM_QUEUE"

\* C16: a packet answered USB_RET_ASYNC parks the channel: HCCHAR, HCTSIZ,
\* HCDMA and HCINT stay as they are and needs_service is cleared; the drain
\* never dispatches a channel whose packet is in flight; the completion
\* callback accounts the result as a synchronous dispatch does (counts and
\* address on success, halt or retry by the same rule), marks the packet
\* finished so that it is accounted once, and schedules the drain.
C16_AsyncParksAndCompletes ==
    [][ \A c \in Chans :
          /\ (ev'.status = "ASYNC" /\ ev'.chan = c /\ ~aborted')
             => /\ hcchar'[c].chena = (ev'.op = "enable" \/ hcchar[c].chena)
                /\ (ev'.op # "enable" => hcchar'[c] = hcchar[c])
                /\ hctsiz'[c] = hctsiz[c]
                /\ hcdma'[c] = hcdma[c]
                /\ hcint'[c] = hcint[c]
                /\ ~packet'[c].needs_service
                /\ packet'[c].async = "INFLIGHT"
          /\ packet[c].async = "INFLIGHT"
             => /\ ~packet[c].needs_service
                /\ ~(ev'.op = "drain" /\ ev'.chan = c)
          /\ (Completed(ev', c) /\ ~aborted')
             => /\ packet[c].async = "INFLIGHT"
                /\ packet'[c].async = "FINISHED"
                /\ held'[c] = held[c] - 1
                /\ bh_sched'
                /\ IF Succeeded(ev')
                   THEN /\ hctsiz'[c].pktcnt =
                               Monus(hctsiz[c].pktcnt,
                                     CeilDiv(ev'.actual, hcchar'[c].mps))
                        /\ hctsiz'[c].xfersize =
                               Monus(hctsiz[c].xfersize, ev'.actual)
                        /\ hcdma'[c] = (hcdma[c] + ev'.actual) % DmaSize
                   ELSE hctsiz'[c] = hctsiz[c] /\ hcdma'[c] = hcdma[c]
                /\ IF Halts(ev', c, hcchar'[c].eptype, ShortIn(c)',
                            hctsiz'[c].pktcnt, hctsiz'[c].xfersize)
                   THEN /\ ~hcchar'[c].chena
                        /\ "CHHLTD" \in hcint'[c]
                        /\ ~packet'[c].needs_service
                        /\ ("XFERCOMPL" \in hcint'[c] \/ ~Succeeded(ev'))
                   ELSE /\ hcchar'[c] = hcchar[c]
                        /\ packet'[c].needs_service ]_vars

\* a parked channel whose packet completed with the whole transfer
C16_ParkedThenCompleted ==
    /\ Completed(ev, 0) /\ Succeeded(ev) /\ ev.actual > 0
    /\ packet[0].async = "FINISHED"
    /\ bh_sched
    /\ hctsiz[0].xfersize = 0
    /\ {"CHHLTD", "XFERCOMPL"} \subseteq hcint[0]


(***************************************************************************)
(* Properties of the drain.                                                *)
(***************************************************************************)
\* C17: s->working is false whenever no drain is executing, and a drain
\* that is requested while one is executing returns at once: it services no
\* channel and leaves the channels, next_chan and the timers as they are.
C17_DrainNotReentered ==
    /\ [](bh_chan = -1 => ~working)
    /\ [][ \A r \in DrainResps :
             (bh_chan # -1 /\ WorkBh(r))
             => /\ ev'.op = "busy"
                /\ UNCHANGED <<hcchar, hcint, hctsiz, hcdma, packet, held,
                               next_chan, timer_armed, eof_armed, frame_number,
                               working, bh_chan>> ]_vars

\* a drain was requested and returned while the drain of channel 0 was in
\* the device and channel 1 asked for service too
C17_NestedDrainReturned ==
    /\ ev.op = "busy"
    /\ bh_chan = 0
    /\ working
    /\ packet[1].needs_service
    /\ ~bh_sched


(***************************************************************************)
(* Properties of the frame clock.                                          *)
(***************************************************************************)
\* C18: a firing of the eof timer advances the frame number by the whole
\* frames elapsed since the start-of-frame timestamp, modulo 65536, moves
\* the timestamp one frame time forward, leaves the timer armed for one
\* frame time after it, and raises SOF.
C18_FrameNumberAdvances ==
    [][ ev'.op = "frame"
        => /\ frame_number' =
                  (frame_number + ((now' - sof_time) \div usb_frame_time)) % FrameWrap
           /\ sof_time' = sof_time + usb_frame_time
           /\ eof_armed'
           /\ "SOF" \in gintsts' ]_vars

\* the step is a read of HFNUM later in the frame of the last read
ReadAgain ==
    /\ ev'.op = "hfnum"
    /\ hfnum_rd.at >= 0
    /\ hfnum_rd.sof = sof_time
    /\ now > hfnum_rd.at
    /\ now < EofDeadline(S)

\* the step is a read of HFNUM right after a start of frame
ReadAfterSof == ev.op = "frame" /\ ev'.op = "hfnum"

RECURSIVE SumTaken(_)
SumTaken(q) == IF q = <<>> THEN 0 ELSE Head(q) + SumTaken(Tail(q))

\* the slot of the i-th descriptor of a walk that began at address start
WalkSlot(start, i) == ((start + (i - 1) * DescSize) % AddrWrap) \div DescSize

\* the walk behind token t, from the memory mem to the memory mem2 and the
\* DMA address dma: the descriptors it took are the ready ones from the
\* start on, each marked done and lowered by the bytes it gave; none before
\* the last one carried the last flag or used the budget up; the walk ended
\* at the last flag, at the budget, or where no ready descriptor is; the
\* bytes of the descriptors add up to the bytes reported
WalkedInOrder(t, mem, mem2, dma) ==
    LET n == Len(t.taken)
        slot(i) == WalkSlot(t.start, i)
        before(i) == SumTaken(SubSeq(t.taken, 1, i - 1))
        uses_up(i) == before(i) + mem[slot(i)].nbytes >= t.pktsize
        stops(i) == mem[slot(i)].l \/ uses_up(i)
        next == (t.start + n * DescSize) % AddrWrap
    IN  /\ ~t.diverged
        /\ n <= DescSlots
        /\ n > 0 => DescReadable(t.start)
        /\ \A i \in 1 .. n :
               /\ mem[slot(i)].sts = "HOST_READY"
               /\ mem2[slot(i)].sts = "DMADONE"
               /\ t.taken[i] = IF uses_up(i) THEN t.pktsize - before(i)
                               ELSE mem[slot(i)].nbytes
               /\ mem2[slot(i)].nbytes = mem[slot(i)].nbytes - t.taken[i]
               /\ i < n => ~stops(i)
        /\ \A j \in DescSlotIds :
               (\A i \in 1 .. n : slot(i) # j) => mem2[j] = mem[j]
        /\ dma = next
        /\ (n = 0 \/ ~stops(n)) =>
               \/ ~DescReadable(next)
               \/ mem2[next \div DescSize].sts # "HOST_READY"
        /\ SumTaken(t.taken) = t.actual

\* the DMA address of the endpoint of token t, after the token
DmaAfter(t) == IF t.pid = "IN" THEN diepdma'[t.ep] ELSE doepdma'[t.ep]

\* C20: in descriptor-DMA mode a token walks the descriptor chain front to
\* back and stops exactly at the first consumed descriptor with the last
\* flag or at the one where the byte budget is used up, or where no ready
\* descriptor is left; the walk always comes to its end, and the bytes taken
\* from the descriptors add up to the bytes reported as transferred
C20_DescWalkStopsAndSums ==
    [][tok'.desc =>
           /\ tok'.fault # "walk"
           /\ ~aborted' => WalkedInOrder(tok', desc_mem, desc_mem', DmaAfter(tok'))]_vars

\* the same for the walks in which no division by zero traps
C20_DescWalkUnlessTrap ==
    [][(tok'.desc /\ ~aborted') =>
           WalkedInOrder(tok', desc_mem, desc_mem', DmaAfter(tok'))]_vars

\* a walk took two descriptors and ended where the budget was used up
C20_WalkedTwoToBudget ==
    /\ tok.desc
    /\ ~aborted
    /\ Len(tok.taken) = 2
    /\ tok.pktsize > 0
    /\ tok.actual = tok.pktsize

(***************************************************************************)
(* SETUP packets of the device side.                                       *)
(***************************************************************************)
\* the request is a standard SET_ADDRESS
StdSetAddress(req) == req.bmRequestType = 0 /\ req.bRequest = 5

\* the SETUP packet of the step sets the enumerated speed, raises
\* enumeration-complete and sets the SETUP cause of its endpoint
Enumerates ==
    /\ dsts' = DSTS_ENUMSPD_HS
    /\ "ENUMDONE" \in gintsts'
    /\ "SETUP" \in doepint'[tok'.ep]

\* the step is a SETUP packet of 8 bytes with a standard SET_ADDRESS to
\* endpoint 0
SetAddressArrives ==
    /\ tok'.pid = "SETUP" /\ tok'.pktsize = 8
    /\ tok'.ep = 0 /\ StdSetAddress(tok'.req)

\* a SETUP packet that is no SET_ADDRESS to endpoint 0 does not raise
\* enumeration-complete
OthersDoNotEnumerate ==
    (tok'.pid = "SETUP" /\ ~(tok'.ep = 0 /\ StdSetAddress(tok'.req)))
        => ("ENUMDONE" \in gintsts' => "ENUMDONE" \in gintsts)

\* C21 as stated: an 8-byte SET_ADDRESS SETUP packet to endpoint 0, with OUT
\* endpoint 0 enabled, sets the enumerated speed, raises
\* enumeration-complete and sets the SETUP cause of the endpoint; any other
\* SETUP packet does not raise enumeration-complete
C21_SetAddressEnumerates ==
    [][/\ (SetAddressArrives /\ "EPENA" \in doepctl[0]) => Enumerates
       /\ OthersDoNotEnumerate]_vars

\* C21, amended: the same when moreover the global OUT NAK is not in effect
\* and the transfer size programmed for the endpoint has room for the 8
\* bytes
C21_SetAddressEnumeratesWithRoom ==
    [][/\ (/\ SetAddressArrives
           /\ "EPENA" \in doepctl[0]
           /\ "GOUTNAKEFF" \notin gintsts
           /\ "DESCDMA_EN" \notin dcfg
           /\ doeptsiz[0].xfersize >= 8) => Enumerates
       /\ OthersDoNotEnumerate]_vars

\* a SET_ADDRESS on endpoint 0 has raised enumeration-complete
C21_Enumerated ==
    /\ tok.pid = "SETUP" /\ tok.ep = 0 /\ tok.actual = 8
    /\ StdSetAddress(tok.req)
    /\ "ENUMDONE" \in gintsts
    /\ "SETUP" \in doepint[0]
    /\ dsts = DSTS_ENUMSPD_HS

(***************************************************************************)
(* IN tokens of the device side.                                           *)
(***************************************************************************)
\* the IN token of the step moved no data and left the transfer size, the
\* packet count, the DMA address and the control bits of its endpoint alone
InTokenMovedNothing ==
    /\ tok'.actual = 0
    /\ dieptsiz'[tok'.ep] = dieptsiz[tok'.ep]
    /\ diepdma'[tok'.ep] = diepdma[tok'.ep]
    /\ diepctl'[tok'.ep] = diepctl[tok'.ep]
    /\ desc_mem' = desc_mem

\* C22: a stalled IN endpoint answers STALL, also when it is inactive or
\* NAK'd; otherwise an endpoint that is inactive, has NAK status or is under
\* global IN NAK answers NAK; in both cases no data moves and transfer size,
\* packet count, DMA address and enable bit stay as they were
C22_InStallBeforeNak ==
    [][tok'.pid = "IN" =>
           LET ctl == diepctl[tok'.ep]
           IN  /\ "STALL" \in ctl =>
                      tok'.status = "STALL" /\ InTokenMovedNothing
               /\ (/\ "STALL" \notin ctl
                   /\ \/ "USBACTEP" \notin ctl
                      \/ "NAKSTS" \in ctl
                      \/ "GINNAKEFF" \in gintsts) =>
                      tok'.status = "NAK" /\ InTokenMovedNothing]_vars

\* a stalled endpoint that is enabled and NAK'd, with a transfer programmed,
\* has answered STALL
C22_StalledAndNakd ==
    /\ tok.pid = "IN" /\ tok.status = "STALL"
    /\ {"STALL", "NAKSTS", "EPENA"} \subseteq diepctl[tok.ep]
    /\ dieptsiz[tok.ep].xfersize > 0

\* the step is an IN token that an enabled endpoint takes without descriptor
\* DMA
InTokenTaken ==
    /\ tok'.pid = "IN"
    /\ InRefusal(diepctl[tok'.ep], "GINNAKEFF" \in gintsts) = "none"
    /\ "EPENA" \in diepctl[tok'.ep]
    /\ "DESCDMA_EN" \notin dcfg

Least(a, b) == IF a < b THEN a ELSE b

\* C23: an IN token on an enabled endpoint without descriptor DMA produces
\* min(transfer size left, room in the packet) bytes, lowers the transfer
\* size by them and the packet count by ceil(bytes / max-packet) without
\* going below 0, and sets transfer-complete and clears the enable bit
\* exactly when the transfer size comes to 0
C23_InTokenCounts ==
    [][InTokenTaken =>
           LET e == tok'.ep
               amount == Least(dieptsiz[e].xfersize, tok'.pktsize)
               left == dieptsiz'[e].xfersize
           IN  /\ ~aborted'
               /\ tok'.actual = amount
               /\ left = dieptsiz[e].xfersize - amount
               /\ diepmps[e] > 0
               /\ dieptsiz'[e].pktcnt = dieptsiz[e].pktcnt - CeilDiv(amount, diepmps[e])
               /\ dieptsiz'[e].pktcnt >= 0
               /\ left = 0 <=> "EPENA" \notin diepctl'[e]
               /\ left = 0 => "XFERCOMPL" \in diepint'[e]
               /\ left # 0 => ("XFERCOMPL" \in diepint'[e] <=> "XFERCOMPL" \in diepint[e])]_vars

\* what the code does with the token when no division traps: nothing but
\* the IN token FIFO empty cause when the transfer size is 0 and the packet
\* has room; else the bytes, the transfer size, the packet count modulo the
\* width of its field (lowered by 1 for a packet of 0 bytes), and the
\* completion when the transfer size was used up
C23_InTokenCountsUnlessTrap ==
    [][(InTokenTaken /\ ~aborted') =>
           LET e == tok'.ep
               sz == dieptsiz[e].xfersize
               amount == Least(sz, tok'.pktsize)
               packets == IF amount > 0 THEN CDiv(amount - 1 + diepmps[e], diepmps[e])
                          ELSE 1
           IN  /\ tok'.actual = amount
               /\ IF tok'.pktsize # 0 /\ amount = 0
                  THEN /\ dieptsiz'[e] = dieptsiz[e]
                       /\ diepctl'[e] = diepctl[e]
                       /\ "INTKNTXFEMP" \in diepint'[e]
                       /\ tok'.status = "ASYNC"
                  ELSE /\ dieptsiz'[e].xfersize = sz - amount
                       /\ dieptsiz'[e].pktcnt =
                              (dieptsiz[e].pktcnt - packets) % PktcntWrap(e, FALSE)
                       /\ sz = amount <=> "EPENA" \notin diepctl'[e]
                       /\ sz = amount => "XFERCOMPL" \in diepint'[e]]_vars

(***************************************************************************)
(* OUT and SETUP tokens of the device side.                                *)
(***************************************************************************)
\* the step is an OUT or SETUP token that an enabled endpoint takes without
\* descriptor DMA
OutTokenTaken ==
    /\ tok'.pid \in {"OUT", "SETUP"}
    /\ tok'.status \notin {"STALL", "NAK"}
    /\ "EPENA" \in doepctl[tok'.ep]
    /\ "DESCDMA_EN" \notin dcfg
    /\ ~aborted'

\* C24: an OUT or SETUP token on an enabled endpoint lowers the transfer
\* size by the bytes consumed; transfer-complete is set and the enable bit
\* cleared only when the whole programmed transfer size has been consumed,
\* not after a packet that leaves transfer size
C24_OutCompletesWhenConsumed ==
    [][OutTokenTaken =>
           LET e == tok'.ep
           IN  /\ doeptsiz'[e].xfersize = doeptsiz[e].xfersize - tok'.actual
               /\ doeptsiz'[e].xfersize # 0 =>
                      /\ "EPENA" \in doepctl'[e]
                      /\ "XFERCOMPL" \in doepint'[e] => "XFERCOMPL" \in doepint[e]]_vars

\* what the code does: the transfer size is lowered by the bytes consumed,
\* and every token the enabled endpoint takes sets transfer-complete and
\* clears the enable bit
C24_OutCompletesAlways ==
    [][OutTokenTaken =>
           LET e == tok'.ep
           IN  /\ tok'.actual = Least(doeptsiz[e].xfersize, tok'.pktsize)
               /\ doeptsiz'[e].xfersize = doeptsiz[e].xfersize - tok'.actual
               /\ "EPENA" \notin doepctl'[e]
               /\ "XFERCOMPL" \in doepint'[e]]_vars

(***************************************************************************)
(* The endpoint interrupts of the device side.                             *)
(***************************************************************************)
\* C25: in every reachable state the DAINT bit of IN endpoint ep is set
\* exactly when DIEPINT(ep) & DIEPMSK is not 0, and the DAINT bit of OUT
\* endpoint ep exactly when DOEPINT(ep) & DOEPMSK is not 0
C25_DaintFollowsEndpoints ==
    \A e \in Eps :
        /\ <<e, FALSE>> \in daint <=> diepint[e] \cap diepmsk # {}
        /\ <<e, TRUE>> \in daint <=> doepint[e] \cap doepmsk # {}

\* a token has set an unmasked cause of IN endpoint 1 while OUT endpoint 0
\* has causes that are all masked
C25_TokenRaisedDaint ==
    /\ tok.pid = "IN" /\ tok.ep = 1
    /\ "XFERCOMPL" \in diepint[1] \cap diepmsk
    /\ <<1, FALSE>> \in daint
    /\ doepint[0] # {} /\ <<0, TRUE>> \notin daint

(***************************************************************************)
(* C26.  Raising a global cause that is already set, or lowering one that  *)
(* is already clear, changes nothing: no register, and not the level of    *)
(* the interrupt output line.  The line is driven only with a level other  *)
(* than the one driven before.                                             *)
(***************************************************************************)
\* the controller's state apart from the scheduled bottom half, GRSTCTL and
\* the record of HFNUM reads
hwRest == <<gintsts, gintmsk, gahbcfg, gotgctl, oldlevel, irq, haint,
            haintmsk, hprt0, hcchar, hcint, hcintmsk, hctsiz, hcdma, packet,
            held, working, bh_chan, next_chan, timer_armed, eof_armed,
            frame_number, now, sof_time, usb_frame_time, usb_bit_time,
            dev_attached, dev_addr, dev_speed, dev_ready, diepctl, doepctl,
            diepint, doepint, diepmsk, doepmsk, daint, daintmsk, dev_bh_sched,
            dcfg, dieptsiz, doeptsiz, diepdma, doepdma, diepmps, doepmps,
            dsts, dctl, udev_attached, irq_before, hreg0_rsvd, dma_ok,
            desc_mem, tok, aborted>>

\* every variable of the controller, the event history left out
hw == <<hwRest, bh_sched, grstctl, hfnum_rd>>

\* the step raised a cause that was set, or lowered one that was clear
IdleRaiseOrLower(e) ==
    \/ e.op = "raise" /\ e.was
    \/ e.op = "lower" /\ ~e.was

C26_RaiseLowerIdempotent ==
    [][/\ IdleRaiseOrLower(ev') => UNCHANGED hw
       /\ irq' # irq => irq_before' = irq
       /\ irq_before' # irq']_vars

\* a cause that was set is raised again while the line is high
C26_RaisedAgainLineHigh ==
    /\ ev.op = "raise" /\ ev.was
    /\ irq = 1 /\ irq_before = 0

(***************************************************************************)
(* C27.  A guest write to GOTGCTL, DCTL, HPRT0 or GINTSTS leaves the       *)
(* read-only bits of the register as they were before the write, whatever  *)
(* the guest wrote.                                                        *)
(***************************************************************************)
\* the step wrote register r, and its read-only bits ro are as before
KeptReadOnly(r, before, after, ro) ==
    ev'.op = r => after \cap ro = before \cap ro

C27_ReadOnlyBitsKept ==
    [][/\ KeptReadOnly("GOTGCTL", gotgctl, gotgctl', GOTGCTL_READONLY)
       /\ KeptReadOnly("DCTL", dctl, dctl', DCTL_READONLY)
       /\ KeptReadOnly("HPRT0", hprt0, hprt0', HPRT0_READONLY)
       /\ KeptReadOnly("GINTSTS", gintsts, gintsts', GINTSTS_READONLY)]_vars

\* what holds: the three other registers keep their read-only bits, and a
\* write to HPRT0 clears none of its own
C27_ReadOnlyBitsNotCleared ==
    [][/\ KeptReadOnly("GOTGCTL", gotgctl, gotgctl', GOTGCTL_READONLY)
       /\ KeptReadOnly("DCTL", dctl, dctl', DCTL_READONLY)
       /\ KeptReadOnly("GINTSTS", gintsts, gintsts', GINTSTS_READONLY)
       /\ ev'.op = "HPRT0" =>
              hprt0 \cap HPRT0_READONLY \subseteq hprt0']_vars

\* GOTGCTL was written while it held read-only bits
C27_WroteOverSessionValid ==
    /\ ev.op = "GOTGCTL"
    /\ "ASESVLD" \in gotgctl
    /\ "SESREQ" \notin gotgctl

(***************************************************************************)
(* C28.  A self-clearing flag of GRSTCTL written as 1 is stored by that    *)
(* write; a read of GRSTCTL returns every such flag as 0 and leaves the    *)
(* stored value without them; a flag that is 0 becomes 1 only by a write   *)
(* of GRSTCTL that has it as 1; AHBIDLE is stored by every write and       *)
(* returned by every read.                                                 *)
(***************************************************************************)
C28_SelfClearingFlags ==
    [][/\ ev'.op = "wr_grstctl" =>
              /\ ev'.intr \cap GRSTCTL_SELFCLEARING \subseteq grstctl'
              /\ "AHBIDLE" \in grstctl'
       /\ ev'.op = "rd_grstctl" =>
              /\ ev'.intr \cap GRSTCTL_SELFCLEARING = {}
              /\ grstctl' = ev'.intr
              /\ "AHBIDLE" \in ev'.intr
       /\ \A f \in GRSTCTL_SELFCLEARING :
              f \notin grstctl /\ f \in grstctl' =>
                  ev'.op = "wr_grstctl" /\ f \in ev'.intr]_vars

\* a read found a flag stored and returned only AHBIDLE
C28_ReadClearedFlag ==
    /\ ev.op = "rd_grstctl" /\ ev.was
    /\ ev.intr = {"AHBIDLE"}
    /\ grstctl = {"AHBIDLE"}

(***************************************************************************)
(* C29.  An access to an offset that has no register in its bank returns 0 *)
(* on read and changes nothing on write; a guest write to a read-only      *)
(* register leaves the register as it was.                                 *)
(***************************************************************************)
\* the offsets of the host bank that have a register
Hreg0Defined == (0 .. HREG0_HPRT0) \ Hreg0Reserved

\* a write to a read-only register of either bank changes nothing
ReadOnlyWritesDropped ==
    /\ ev'.op = "wr_hreg0" /\ ev'.chan \in Hreg0ReadOnly => UNCHANGED hw
    /\ ev'.op = "wr_dreg" => UNCHANGED hw

C29_UndefinedOffsetsDropped ==
    [][/\ ev'.op = "wr_hreg0" /\ ev'.chan \notin Hreg0Defined => UNCHANGED hw
       /\ ev'.op = "rd_hreg0" /\ ev'.chan \notin Hreg0Defined =>
              ev'.actual = 0 /\ UNCHANGED hw
       /\ ReadOnlyWritesDropped]_vars

\* amended: the offsets rejected are those above the last register of the
\* bank; a reserved word inside the range is stored and read back
C29_OutOfRangeDropped ==
    [][/\ ev'.op = "wr_hreg0" /\ ev'.chan > HREG0_HPRT0 => UNCHANGED hw
       /\ ev'.op = "rd_hreg0" /\ ev'.chan > HREG0_HPRT0 =>
              ev'.actual = 0 /\ UNCHANGED hw
       /\ ev'.op = "wr_hreg0" /\ ev'.chan \in Hreg0Reserved =>
              hreg0_rsvd' = [hreg0_rsvd EXCEPT ![ev'.chan] = ev'.actual]
       /\ ev'.op = "rd_hreg0" /\ ev'.chan \in Hreg0Reserved =>
              ev'.actual = hreg0_rsvd[ev'.chan] /\ UNCHANGED hw
       /\ ReadOnlyWritesDropped]_vars

\* an offset above HPRT0 was read as 0 while a reserved word held a value
\* and HAINT was set
C29_ReadAboveBankWasZero ==
    /\ ev.op = "rd_hreg0" /\ ev.chan > HREG0_HPRT0 /\ ev.actual = 0
    /\ hreg0_rsvd[3] = BankWord
    /\ haint # {}

(***************************************************************************)
(* C30.  Enabling a channel whose max packet size is 0, or whose transfer  *)
(* size is above the maximum, issues no packet to the device and leaves    *)
(* HCTSIZ, HCDMA, HCINT, HAINT and the needs-service flag as they were.    *)
(***************************************************************************)
\* channel c is programmed as dwc2_handle_packet refuses it
BadProgram(c) ==
    \/ hcchar'[c].mps = 0
    \/ hctsiz'[c].xfersize > DWC2_MAX_XFER_SIZE

C30_BadProgramHasNoEffect ==
    [][ev'.op = "enable" /\ BadProgram(ev'.chan) =>
          /\ ev'.status \in {"none", "NOTFOUND"}
          /\ held' = held
          /\ UNCHANGED <<hctsiz, hcdma, hcint, haint>>
          /\ packet'[ev'.chan].needs_service = packet[ev'.chan].needs_service
          /\ packet'[ev'.chan].async = packet[ev'.chan].async]_vars

\* channel 0 was enabled with a max packet size of 0 while the device was
\* there to be asked, and after an earlier transfer had left its traces
C30_EnabledWithZeroMps ==
    /\ ev.op = "enable" /\ ev.chan = 0 /\ ev.status = "none"
    /\ hcchar[0].chena /\ hcchar[0].mps = 0
    /\ dwc2_find_device(S, hcchar[0].devaddr)
    /\ hcint[0] # {}
    /\ bh_sched

(***************************************************************************)
(* C31.  When the DMA read or write made for a packet of a host channel    *)
(* fails, the channel halts with XACTERR and CHHLTD set and CHENA cleared, *)
(* and the controller keeps running.                                       *)
(***************************************************************************)
C31_DmaFaultHalts ==
    [][ev'.fault =>
          /\ {"XACTERR", "CHHLTD"} \subseteq hcint'[ev'.chan]
          /\ ~hcchar'[ev'.chan].chena
          /\ ~aborted']_vars

\* what holds: the controller keeps running, and a failed DMA access adds no
\* transaction error to a packet the device answered with SUCCESS
C31_DmaFaultIgnored ==
    [][ev'.fault =>
          /\ ~aborted'
          /\ ev'.status = "SUCCESS" /\ "XACTERR" \notin hcint[ev'.chan] =>
                 "XACTERR" \notin hcint'[ev'.chan]]_vars

\* an IN packet was received whole while its buffer was unmapped, and the
\* transfer was completed as a success
C31_FaultedInCompleted ==
    /\ ev.fault /\ ev.status = "SUCCESS" /\ ev.actual > 0
    /\ hcchar[ev.chan].epdir = 1
    /\ "XFERCOMPL" \in hcint[ev.chan]
    /\ "XACTERR" \notin hcint[ev.chan]

(***************************************************************************)
(* C32.  After a reset of the controller, through the reset entry point or *)
(* through GRSTCTL.CSFTRST, the registers hold their defaults (GINTSTS     *)
(* only PTXFEMP and NPTXFEMP; GINTMSK, HAINT, HAINTMSK, DAINT and the      *)
(* channel and endpoint registers 0, endpoint 0 active), no channel needs  *)
(* service, next_chan is 0, working is clear, the work timer and the       *)
(* bottom half are cancelled and the interrupt line is low.                *)
(***************************************************************************)
\* the step was a reset: the entry point, or a GRSTCTL write that set CSFTRST
WasReset ==
    \/ ev'.op = "reset"
    \/ ev'.op = "wr_grstctl" /\ "CSFTRST" \in ev'.intr /\ "CSFTRST" \notin grstctl

\* what a reset leaves whether or not a device is on the port
ResetDefaults ==
    /\ gintmsk' = {} /\ gahbcfg' = {}
    /\ haint' = {} /\ haintmsk' = {}
    /\ daint' = {} /\ daintmsk' = {}
    /\ hcchar' = [c \in Chans |-> ZeroHcchar]
    /\ hcint' = [c \in Chans |-> {}]
    /\ hcintmsk' = [c \in Chans |-> {}]
    /\ hctsiz' = [c \in Chans |-> ZeroHctsiz]
    /\ hcdma' = [c \in Chans |-> 0]
    /\ diepctl' = ResetDxepctl /\ doepctl' = ResetDxepctl
    /\ diepint' = [e \in Eps |-> {}] /\ doepint' = [e \in Eps |-> {}]
    /\ dieptsiz' = [e \in Eps |-> ZeroDxeptsiz]
    /\ doeptsiz' = [e \in Eps |-> ZeroDxeptsiz]
    /\ \A c \in Chans : ~packet'[c].needs_service
    /\ next_chan' = 0
    /\ ~working'
    /\ ~timer_armed' /\ ~bh_sched'
    /\ irq' = 0

C32_ResetRestoresDefaults ==
    [][WasReset =>
          /\ ResetDefaults
          /\ gintsts' = {"PTXFEMP", "NPTXFEMP"}]_vars

\* amended: with a device on the port the reset attaches it again, which
\* raises PRTINT and CURMODE_HOST and marks the connection in HPRT0
C32_ResetRestoresDefaultsAndAttaches ==
    [][WasReset =>
          /\ ResetDefaults
          /\ gintsts' = {"PTXFEMP", "NPTXFEMP"} \cup
                        (IF dev_attached THEN {"PRTINT", "CURMODE_HOST"} ELSE {})
          /\ hprt0' \ HPRT0_SPD_MASK =
                 {"PWR"} \cup (IF dev_attached THEN {"CONNDET", "CONNSTS"} ELSE {})
          /\ grstctl' = {"AHBIDLE"} \cup (IF ev'.op = "reset" THEN {} ELSE {"CSFTRST"})]_vars

\* the guest reset the core while the line was high and channel 0 waited for
\* a retry with the bottom half scheduled; the device is attached again
C32_SoftResetWithDevice ==
    /\ ev.op = "wr_grstctl" /\ "CSFTRST" \in grstctl
    /\ dev_attached
    /\ "PRTINT" \in gintsts
    /\ irq = 0 /\ irq_before = 1
    /\ hcchar[0] = ZeroHcchar

(***************************************************************************)
(* C33.  Once the guest has disabled a channel, the work drain issues no   *)
(* packet of that channel to the device until the guest enables it again.  *)
(* A channel the guest disabled has CHENA clear until the guest enables it *)
(* again (HccharStored), so the drain may hand a packet to the device only *)
(* for a channel whose CHENA is set.                                       *)
(***************************************************************************)
C33_DrainSkipsDisabled ==
    [][ev'.op = "drain" /\ Handled(ev') => hcchar[ev'.chan].chena]_vars

\* what holds: the drain issues packets only for channels marked as needing
\* service, whatever their CHENA
C33_DrainServesMarked ==
    [][ev'.op = "drain" /\ Handled(ev') => packet[ev'.chan].needs_service]_vars

\* channel 0 was disabled while it waited for a retry
C33_DisabledWhileWaiting ==
    /\ ev.op = "disable" /\ ev.chan = 0
    /\ ~hcchar[0].chena
    /\ packet[0].needs_service
    /\ bh_sched

(***************************************************************************)
(* C34.  A pass of the work drain services at most one channel: the first  *)
(* one marked as needing service in cyclic order from next_chan.  After    *)
(* the pass next_chan is the channel after the serviced one and the work   *)
(* timer is armed; every other channel that needs service is then nearer   *)
(* to next_chan than before, so it is serviced within NbChan passes.  A    *)
(* pass that finds no channel to service changes nothing and arms no       *)
(* timer.                                                                  *)
(***************************************************************************)
\* how many channels the scan from next_chan n looks at before channel c
ScanDist(n, c) == (c - n + NbChan) % NbChan

C34_DrainRoundRobin ==
    [][/\ ev'.op = "drain" =>
            LET d == ev'.chan
            IN  /\ packet[d].needs_service
                /\ \A c \in Chans :
                      ScanDist(next_chan, c) < ScanDist(next_chan, d)
                          => ~packet[c].needs_service
                /\ next_chan' = (d + 1) % NbChan
                /\ timer_armed'
                /\ \A c \in Chans \ {d} :
                      /\ packet'[c] = packet[c]
                      /\ hcchar'[c] = hcchar[c]
                      /\ hcint'[c] = hcint[c]
                      /\ hctsiz'[c] = hctsiz[c]
                      /\ packet[c].needs_service
                            => ScanDist(next_chan', c) < ScanDist(next_chan, c)
       /\ (/\ bh_sched /\ ~bh_sched'
           /\ \A c \in Chans : ~packet[c].needs_service)
            => /\ hwRest' = hwRest
               /\ ~ev'.fault /\ ev'.op = "none"]_vars

\* the drain serviced channel 1 while channel 0 was waiting too, and
\* channel 0 is the next one
C34_ServicedSecondOfTwo ==
    /\ ev.op = "drain" /\ ev.chan = 1
    /\ packet[0].needs_service
    /\ packet[1].needs_service
    /\ next_chan = 0
    /\ timer_armed

(***************************************************************************)
(* C35.  After a detach of the root port GINTSTS has PRTINT and DISCONNINT *)
(* set, and after an attach PRTINT and CURMODE_HOST, whatever causes were  *)
(* pending before.                                                         *)
(***************************************************************************)
C35_PlugEventsSetCauses ==
    [][/\ (dev_attached /\ ~dev_attached')
            => {"PRTINT", "DISCONNINT"} \subseteq gintsts'
       /\ (~dev_attached /\ dev_attached')
            => {"PRTINT", "CURMODE_HOST"} \subseteq gintsts']_vars

\* what holds: the causes are set when none of them was pending before, and
\* GINTSTS is left as it was when one of them was
C35_PlugEventsSetCausesIfNonePending ==
    [][/\ (dev_attached /\ ~dev_attached')
            => gintsts' = IF gintsts \cap {"PRTINT", "DISCONNINT"} = {}
                          THEN gintsts \cup {"PRTINT", "DISCONNINT"}
                          ELSE gintsts
       /\ (~dev_attached /\ dev_attached' /\ ~aborted')
            => gintsts' = IF gintsts \cap {"PRTINT", "CURMODE_HOST"} = {}
                          THEN gintsts \cup {"PRTINT", "CURMODE_HOST"}
                          ELSE gintsts]_vars

(***************************************************************************)
(* C36.  GINTSTS.IEPINT is set iff an IN endpoint bit of DAINT is set and  *)
(* unmasked in DAINTMSK, and GINTSTS.OEPINT is set iff an OUT endpoint bit *)
(* of DAINT is set and unmasked in DAINTMSK.                               *)
(***************************************************************************)
C36_SummaryFollowsUnmaskedDaint ==
    /\ "IEPINT" \in gintsts <=> DaintHalf(daint \cap daintmsk, FALSE) # {}
    /\ "OEPINT" \in gintsts <=> DaintHalf(daint \cap daintmsk, TRUE) # {}

(***************************************************************************)
(* C37.  A write of HCCHAR that newly sets CHDIS is a disable request: it  *)
(* issues no packet and leaves CHENA and CHDIS clear and HCINT.CHHLTD set. *)
(* CHDIS is never set in a stored HCCHAR.  CHENA of a channel is cleared   *)
(* only by a disable request or by a halt of the channel, so a write with  *)
(* CHENA = 0 and CHDIS = 0 leaves the channel enabled.                     *)
(***************************************************************************)
C37_EnableDisableBits ==
    [][/\ \A c \in Chans : ~hcchar'[c].chdis
       /\ ev'.op = "disable" =>
            /\ ~Handled(ev')
            /\ held' = held
            /\ packet' = packet
            /\ ~hcchar'[ev'.chan].chena
            /\ "CHHLTD" \in hcint'[ev'.chan]
       /\ \A c \in Chans :
            hcchar[c].chena /\ ~hcchar'[c].chena =>
                /\ ev'.chan = c
                /\ "CHHLTD" \in hcint'[c]
                /\ \/ ev'.op = "disable"
                   \/ ev'.op \in {"enable", "drain", "complete"} /\ ev'.status # "none"]_vars

\* channel 0 was disabled while the device held its packet: both bits read
\* as 0 and the channel is halted
C37_EnabledChannelDisabled ==
    /\ ev.op = "disable" /\ ev.chan = 0
    /\ ~hcchar[0].chena /\ ~hcchar[0].chdis
    /\ "CHHLTD" \in hcint[0]
    /\ held[0] > 0

(***************************************************************************)
(* C38.  HPRT0.ENA becomes set only in an HPRT0 write that takes RST from  *)
(* 1 to 0 while a device is attached; ENACHG is then set too and PRTINT is *)
(* raised.  After every HPRT0 write GINTSTS.PRTINT is set if CONNDET,      *)
(* ENACHG or OVRCURRCHG is set in the stored HPRT0, and clear otherwise.   *)
(***************************************************************************)
HPRT0_CHANGE == {"CONNDET", "ENACHG", "OVRCURRCHG"}

C38_PortEnableSelfSetting ==
    [][/\ ("ENA" \notin hprt0 /\ "ENA" \in hprt0') =>
            /\ ev'.op = "HPRT0"
            /\ "RST" \in hprt0 /\ "RST" \notin hprt0'
            /\ dev_attached
            /\ "ENACHG" \in hprt0'
            /\ "PRTINT" \in gintsts'
       /\ ev'.op = "HPRT0" =>
            ("PRTINT" \in gintsts' <=> hprt0' \cap HPRT0_CHANGE # {})]_vars

\* the guest ended the reset of a port with a device attached: the port is
\* enabled, with ENACHG and the port interrupt pending
C38_PortEnabledByReset ==
    /\ ev.op = "HPRT0"
    /\ dev_attached
    /\ {"ENA", "ENACHG"} \subseteq hprt0
    /\ "RST" \notin hprt0
    /\ "PRTINT" \in gintsts

(***************************************************************************)
(* C39.  Device mode.  A token for an active endpoint that is neither      *)
(* stalled nor in NAK and whose EPENA is clear is parked on the queue of   *)
(* the endpoint: no data moves and the transfer size is unchanged.  A pass *)
(* of the device bottom half over an enabled endpoint with a transfer size *)
(* other than 0 processes the packet at the head of the queue and          *)
(* completes it; a packet refused with NAK in the pass is completed with   *)
(* IOERROR.                                                                *)
(***************************************************************************)
\* the control register, the transfer size and the MPS of the endpoint of
\* queue q
QueueCtl(q) == IF q[2] = "IN" THEN diepctl[q[1]] ELSE doepctl[q[1]]
QueueTsiz(q) == IF q[2] = "IN" THEN dieptsiz[q[1]] ELSE doeptsiz[q[1]]
QueueMps(q) == IF q[2] = "IN" THEN diepmps[q[1]] ELSE doepmps[q[1]]

\* the endpoint of queue q refuses tokens with NAK
QueueNaks(q) ==
    /\ "STALL" \notin QueueCtl(q)
    /\ \/ "USBACTEP" \notin QueueCtl(q)
       \/ "NAKSTS" \in QueueCtl(q)
       \/ (IF q[2] = "IN" THEN "GINNAKEFF" ELSE "GOUTNAKEFF") \in gintsts

\* the endpoint of queue q takes tokens
QueueOpen(q) == "STALL" \notin QueueCtl(q) /\ ~QueueNaks(q)

\* the step completed the packet at the head of queue q with a status in sts
CompletedHead(q, sts) ==
    /\ ep_queue'[q] = Tail(ep_queue[q])
    /\ \E c \in completed' :
          c.queue = q /\ c.pid = Head(ep_queue[q]).pid /\ c.status \in sts

\* a token that finds the endpoint open and not enabled is parked
TokenParked ==
    (ev'.op = "token" /\ ~aborted') =>
        LET q == EpQueue(tok'.ep, tok'.pid)
        IN  QueueOpen(q) /\ "EPENA" \notin QueueCtl(q) =>
                /\ tok'.status = "ASYNC"
                /\ tok'.actual = 0
                /\ Len(ep_queue'[q]) = 1
                /\ Head(ep_queue'[q]).pid = tok'.pid
                /\ Head(ep_queue'[q]).state = "ASYNC"
                /\ <<dieptsiz, doeptsiz, diepdma, doepdma, desc_mem>>'
                       = <<dieptsiz, doeptsiz, diepdma, doepdma, desc_mem>>

\* a packet refused with NAK in a pass is completed with IOERROR
PassNakIsError ==
    (ev'.op = "dev_bh" /\ ~aborted') =>
        \A q \in EpQueues :
            ep_queue[q] # <<>> /\ QueueNaks(q) => CompletedHead(q, {"IOERROR"})

ReadOps == {"rd", "rd_hreg0", "rd_grstctl", "hfnum"}

====
